---- MODULE Spec2Model ----
(***************************************************************************)
(* A model of the voice-coding-assistant agent: the command safety filter  *)
(* and shell tool of tools.py, and the conversation loop of                 *)
(* assistant_core.py.  Text is modelled as a sequence of one-character     *)
(* strings, so that lower(), strip(), `in` and startswith() are computed   *)
(* as Python computes them.                                                *)
(***************************************************************************)
EXTENDS Integers, Sequences, FiniteSets, TLC

\* ------------------------------------------------------------------ bounds

\* The number of fragments a command string handed to run_command is built of.
MaxFrags == 3

\* run_assistant is followed for at most this many calls of the model.
MaxCalls == 2

\* ------------------------------------------------------------- Python str

\* Some characters are named: NUL is chr(0), NL the line feed, TAB the
\* tabulator, CR the carriage return, FF the form feed, VT the vertical
\* tabulator and BQ the backquote.
UpperCase == <<"A","B","C","D","E","F","G","H","I","J","K","L","M",
               "N","O","P","Q","R","S","T","U","V","W","X","Y","Z">>

LowerCase == <<"a","b","c","d","e","f","g","h","i","j","k","l","m",
               "n","o","p","q","r","s","t","u","v","w","x","y","z">>

Whitespace == {" ", "TAB", "NL", "CR", "FF", "VT"}

\* str.lower() on one character.
LowerChar(c) ==
  IF \E i \in 1..Len(UpperCase) : UpperCase[i] = c
  THEN LowerCase[CHOOSE i \in 1..Len(UpperCase) : UpperCase[i] = c]
  ELSE c

\* str.lower()
Lower(s) == [i \in 1..Len(s) |-> LowerChar(s[i])]

\* str.strip(): leading and trailing whitespace removed.
Strip(s) ==
  LET keep == {i \in 1..Len(s) : s[i] \notin Whitespace}
  IN  IF keep = {} THEN <<>>
      ELSE LET lo == CHOOSE i \in keep : \A j \in keep : i <= j
               hi == CHOOSE i \in keep : \A j \in keep : j <= i
           IN  SubSeq(s, lo, hi)

\* sub in s
Contains(sub, s) ==
  \E i \in 1..(Len(s) - Len(sub) + 1) :
     \A j \in 1..Len(sub) : s[i + j - 1] = sub[j]

\* s.startswith(pre)
StartsWith(s, pre) ==
  /\ Len(pre) <= Len(s)
  /\ \A j \in 1..Len(pre) : s[j] = pre[j]

\* ----------------------------------------------------- tools.run_command

SAFE_COMMANDS ==
  <<
     <<"g","i","t">>,
     <<"n","p","m"," ","l","i","s","t">>,
     <<"n","p","m"," ","-","-","v","e","r","s","i","o","n">>,
     <<"n","p","m"," ","i","n","f","o">>,
     <<"n","p","m"," ","o","u","t","d","a","t","e","d">>,
     <<"n","p","m"," ","a","u","d","i","t">>,
     <<"n","p","m"," ","r","u","n">>,
     <<"p","i","p"," ","l","i","s","t">>,
     <<"p","i","p"," ","s","h","o","w">>,
     <<"p","i","p"," ","-","-","v","e","r","s","i","o","n">>,
     <<"p","i","p"," ","c","h","e","c","k">>,
     <<"y","a","r","n"," ","-","-","v","e","r","s","i","o","n">>,
     <<"y","a","r","n"," ","l","i","s","t">>,
     <<"y","a","r","n"," ","i","n","f","o">>,
     <<"y","a","r","n"," ","r","u","n">>,
     <<"n","o","d","e"," ","-","-","v","e","r","s","i","o","n">>,
     <<"p","y","t","h","o","n"," ","-","-","v","e","r","s","i","o","n">>,
     <<"p","y","t","h","o","n"," ","-","V">>,
     <<"j","a","v","a"," ","-","v","e","r","s","i","o","n">>,
     <<"l","s">>,
     <<"d","i","r">>,
     <<"p","w","d">>,
     <<"c","d">>,
     <<"c","a","t">>,
     <<"t","y","p","e">>,
     <<"h","e","a","d">>,
     <<"t","a","i","l">>,
     <<"w","c">>,
     <<"f","i","n","d">>,
     <<"g","r","e","p">>,
     <<"c","o","d","e">>,
     <<"j","u","p","y","t","e","r"," ","-","-","v","e","r","s","i","o","n">>,
     <<"w","h","o","a","m","i">>,
     <<"d","a","t","e">>,
     <<"e","c","h","o">>,
     <<"w","h","i","c","h">>,
     <<"w","h","e","r","e">>
  >>

DANGEROUS_COMMANDS ==
  <<
     <<"s","u","d","o">>,
     <<"s","u">>,
     <<"c","h","m","o","d"," ","7","7","7">>,
     <<"c","h","o","w","n">>,
     <<"r","m"," ","-","r","f">>,
     <<"r","m","d","i","r">>,
     <<"d","e","l"," ","/","f">>,
     <<"d","e","l"," ","/","s">>,
     <<"f","o","r","m","a","t">>,
     <<"f","d","i","s","k">>,
     <<"m","v"," ","/">>,
     <<"c","p"," ","-","r"," ","/">>,
     <<"x","c","o","p","y">>,
     <<"w","g","e","t">>,
     <<"c","u","r","l"," ","-","X"," ","P","O","S","T">>,
     <<"c","u","r","l"," ","-","X"," ","P","U","T">>,
     <<"c","u","r","l"," ","-","X"," ","D","E","L","E","T","E">>,
     <<"n","c">>,
     <<"n","e","t","c","a","t">>,
     <<"s","s","h">>,
     <<"s","c","p">>,
     <<"r","s","y","n","c">>,
     <<"k","i","l","l"," ","-","9">>,
     <<"k","i","l","l","a","l","l">>,
     <<"p","k","i","l","l">>,
     <<"t","a","s","k","k","i","l","l"," ","/","f">>,
     <<"s","h","u","t","d","o","w","n">>,
     <<"r","e","b","o","o","t">>,
     <<"h","a","l","t">>,
     <<"p","o","w","e","r","o","f","f">>,
     <<"m","o","u","n","t">>,
     <<"u","m","o","u","n","t">>,
     <<"f","s","c","k">>,
     <<"r","e","g"," ","d","e","l","e","t","e">>,
     <<"r","e","g"," ","a","d","d">>,
     <<"r","e","g","e","d","i","t">>,
     <<"a","p","t"," ","i","n","s","t","a","l","l">>,
     <<"a","p","t"," ","r","e","m","o","v","e">>,
     <<"y","u","m"," ","i","n","s","t","a","l","l">>,
     <<"b","r","e","w"," ","i","n","s","t","a","l","l">>,
     <<"p","i","p"," ","i","n","s","t","a","l","l">>,
     <<"n","p","m"," ","i","n","s","t","a","l","l"," ","-","g">>,
     <<"y","a","r","n"," ","g","l","o","b","a","l"," ","a","d","d">>,
     <<"e","v","a","l">>,
     <<"e","x","e","c">>,
     <<"s","o","u","r","c","e">>,
     <<"b","a","s","h"," ","-","c">>,
     <<"s","h"," ","-","c">>,
     <<"c","m","d"," ","/","c">>,
     <<"m","y","s","q","l">>,
     <<"p","s","q","l">>,
     <<"m","o","n","g","o">>,
     <<"r","e","d","i","s","-","c","l","i">>
  >>

dangerous_patterns ==
  <<
     <<"&","&">>,
     <<"|","|">>,
     <<";">>,
     <<"|">>,
     <<">">>,
     <<">",">">>,
     <<"<">>,
     <<"BQ">>,
     <<"$">>,
     <<"$","(">>
  >>

\* ------------------------------------------------------------ Python values

\* A Python value as it reaches a tool: a str (its characters in s), None, an
\* int (its value in n) or a list (its length in n).  JSON decoding and the
\* untyped MCP arguments can produce each of them.
PyStr(s) == [ty |-> "str",  s |-> s,    n |-> 0]
PyNone == [ty |-> "none", s |-> <<>>, n |-> 0]
PyInt(k) == [ty |-> "int",  s |-> <<>>, n |-> k]
PyList(k) == [ty |-> "list", s |-> <<>>, n |-> k]

\* A key that a decoded JSON object does not hold.
Absent == [ty |-> "absent", s |-> <<>>, n |-> 0]

IsStr(v) == v.ty = "str"

\* bool(v)
Truthy(v) ==
  CASE v.ty = "str"  -> v.s # <<>>
    [] v.ty = "none" -> FALSE
    [] v.ty = "int"  -> v.n # 0
    [] v.ty = "list" -> v.n # 0
    [] OTHER -> FALSE

\* What a call of a tool function comes to: the text it returns or the
\* exception that leaves it.  kind names the f-string of the text (or the
\* exception); arg, detail and code are the command or path, the marker or
\* file content, and the exit code it holds; info and samples are the counts
\* and import lines of a code analysis; exc is the exception whose message an
\* error text holds.
Result(raised, kind, arg, detail, code, info, samples, exc) ==
  [raised |-> raised, kind |-> kind, arg |-> arg, detail |-> detail, code |-> code,
   info |-> info, samples |-> samples, exc |-> exc]

Text(kind, arg, detail, code) == Result(FALSE, kind, arg, detail, code, <<>>, <<>>, "")

ErrorText(kind, exc) == Result(FALSE, kind, <<>>, <<>>, 0, <<>>, <<>>, exc)

Raise(exc) == Result(TRUE, exc, <<>>, <<>>, 0, <<>>, <<>>, exc)

\* ------------------------------------------------------------- os.system

ExitCodes == {0, 1}

\* os.system(cmd) for a str: ValueError for an embedded null character, else
\* the shell runs the command and its exit status, code, comes back.
os_system(cmd, code) ==
  IF Contains(<<"NUL">>, cmd)
  THEN [raised |-> TRUE, code |-> 0]
  ELSE [raised |-> FALSE, code |-> code]

\* What stands in for os.system's outcome in a call that never reaches it.
NotRun == [raised |-> FALSE, code |-> 0]

\* ----------------------------------------------------- run_command proper

\* What a call of a tool comes to in all: what it returns or raises, and the
\* commands it handed to os.system on the way.
ShellOutcome(ret, calls) == [ret |-> ret, calls |-> calls]

\* A loop that looks at the first pattern only.
HasPattern_first_only(cmd) ==
  Contains(dangerous_patterns[1], cmd)

\* Lines 79-81: some pattern of dangerous_patterns is in cmd.
HasPattern(cmd) ==
  \E i \in 1..Len(dangerous_patterns) : Contains(dangerous_patterns[i], cmd)

\* Lines 84-86: some entry of DANGEROUS_COMMANDS, as written, is in cmd_lower.
HasDangerous(cmd_lower) ==
  \E i \in 1..Len(DANGEROUS_COMMANDS) : Contains(DANGEROUS_COMMANDS[i], cmd_lower)

\* The entry the loop of lines 84-86 returns at: the first one in cmd_lower.
FirstDangerous(cmd_lower) ==
  LET first == CHOOSE i \in 1..Len(DANGEROUS_COMMANDS) :
                 /\ Contains(DANGEROUS_COMMANDS[i], cmd_lower)
                 /\ \A j \in 1..(i - 1) : ~Contains(DANGEROUS_COMMANDS[j], cmd_lower)
  IN  DANGEROUS_COMMANDS[first]

\* The allowlist test with `in` in place of startswith.
is_safe_anywhere(cmd_lower) ==
  \E i \in 1..Len(SAFE_COMMANDS) : Contains(Lower(SAFE_COMMANDS[i]), cmd_lower)

\* The allowlist test without lower() on the entry.
is_safe_as_written(cmd_lower) ==
  \E i \in 1..Len(SAFE_COMMANDS) : StartsWith(cmd_lower, SAFE_COMMANDS[i])

\* Lines 89-93: cmd_lower starts with some lowercased entry of SAFE_COMMANDS.
is_safe(cmd_lower) ==
  \E i \in 1..Len(SAFE_COMMANDS) : StartsWith(cmd_lower, Lower(SAFE_COMMANDS[i]))

\* run_command(v), sys being what os.system does if it is called.  A value
\* that is no str has no lower(): line 75, outside the try of line 99, raises.
run_command(v, sys) ==
  IF ~IsStr(v) THEN ShellOutcome(Raise("AttributeError"), <<>>)
  ELSE
    LET cmd == v.s
        cmd_lower == Strip(Lower(cmd))
    IN  IF HasPattern(cmd)
          THEN ShellOutcome(Text("blocked_chaining", cmd, <<>>, 0), <<>>)
        ELSE IF HasDangerous(cmd_lower)
          THEN ShellOutcome(Text("blocked_dangerous", cmd, FirstDangerous(cmd_lower), 0), <<>>)
        ELSE IF ~is_safe(cmd_lower)
          THEN ShellOutcome(Text("blocked_not_allowed", cmd, <<>>, 0), <<>>)
        ELSE IF sys.raised
          THEN ShellOutcome(Result(FALSE, "error_executing", cmd, <<>>, 0, <<>>, <<>>,
                                   "ValueError"), <<cmd>>)
        ELSE ShellOutcome(Text("executed", cmd, <<>>, sys.code), <<cmd>>)

\* ------------------------------------------------------------ more of str

\* s.endswith(suf)
EndsWith(s, suf) ==
  /\ Len(suf) <= Len(s)
  /\ \A j \in 1..Len(suf) : s[Len(s) - Len(suf) + j] = suf[j]

\* The least index of s that holds c, 0 when there is none (s.find(c) + 1).
Find(s, c) ==
  IF \E i \in 1..Len(s) : s[i] = c
  THEN CHOOSE i \in 1..Len(s) : s[i] = c /\ \A j \in 1..(i - 1) : s[j] # c
  ELSE 0

\* s.split(c): the pieces of s between the occurrences of c.
RECURSIVE Split(_, _)
Split(s, c) ==
  IF Find(s, c) = 0 THEN <<s>>
  ELSE <<SubSeq(s, 1, Find(s, c) - 1)>> \o Split(SubSeq(s, Find(s, c) + 1, Len(s)), c)

\* s.strip(c) for one character c.
StripChar(s, c) ==
  LET keep == {i \in 1..Len(s) : s[i] # c}
  IN  IF keep = {} THEN <<>>
      ELSE LET lo == CHOOSE i \in keep : \A j \in keep : i <= j
               hi == CHOOSE i \in keep : \A j \in keep : j <= i
           IN  SubSeq(s, lo, hi)

\* s.replace(a, b) for characters a and b.
ReplaceChar(s, a, b) == [i \in 1..Len(s) |-> IF s[i] = a THEN b ELSE s[i]]

\* ------------------------------------------------------- the file system

\* A path is the sequence of its components and the current directory is the
\* empty path; an absolute path starts with the component "/".  A file system
\* is the set of its directories and the content of each of its files.
Root == <<<<"/">>>>

\* Path(s), pathlib's reading of a str: empty and "." components are dropped.
\* (The strings of this model hold no "..".)
PathOf(s) ==
  LET parts == SelectSeq(Split(s, "/"), LAMBDA x : x # <<>> /\ x # <<".">>)
  IN  IF Len(s) > 0 /\ s[1] = "/" THEN Root \o parts ELSE parts

IsAbsolute(p) == Len(p) > 0 /\ p[1] = <<"/">>

\* a / b of pathlib.
JoinPath(a, b) == IF IsAbsolute(b) THEN b ELSE a \o b

\* str(p) of a pathlib path.
RECURSIVE PathStr(_)
PathStr(p) ==
  IF p = <<>> THEN <<".">>
  ELSE IF Len(p) = 1 THEN p[1]
  ELSE IF p[1] = <<"/">> THEN <<"/">> \o PathStr(Tail(p))
  ELSE p[1] \o <<"/">> \o PathStr(Tail(p))

Parent(p) == SubSeq(p, 1, Len(p) - 1)

IsDir(fs, p) == p \in fs.dirs
IsFile(fs, p) == p \in DOMAIN fs.files
Exists(fs, p) == IsDir(fs, p) \/ IsFile(fs, p)

\* What a step on the file system comes to: the exception it raises ("" when
\* it raises none) and the file system it leaves.
FsStep(exc, fs) == [exc |-> exc, fs |-> fs]

\* open(p, 'w') followed by write(content): the file is created or truncated
\* when its directory exists.  The empty str names no file.
OpenWrite(fs, s, content) ==
  LET p == PathOf(s)
  IN  IF s = <<>> THEN FsStep("FileNotFoundError", fs)
      ELSE IF IsDir(fs, p) THEN FsStep("IsADirectoryError", fs)
      ELSE IF IsFile(fs, Parent(p)) THEN FsStep("NotADirectoryError", fs)
      ELSE IF ~IsDir(fs, Parent(p)) THEN FsStep("FileNotFoundError", fs)
      ELSE FsStep("", [fs EXCEPT !.files =
                         [q \in (DOMAIN fs.files) \cup {p} |->
                            IF q = p THEN content ELSE fs.files[q]]])

\* open(p, 'r'): the exception it raises, "" when the file can be read.
OpenRead(fs, s) ==
  LET p == PathOf(s)
  IN  IF s = <<>> THEN "FileNotFoundError"
      ELSE IF IsDir(fs, p) THEN "IsADirectoryError"
      ELSE IF ~IsFile(fs, p) THEN "FileNotFoundError"
      ELSE ""

\* Path.mkdir(parents=True, exist_ok=True)
MkdirParents(fs, p) ==
  LET prefixes == {SubSeq(p, 1, k) : k \in 1..Len(p)}
  IN  IF \E q \in prefixes : IsFile(fs, q)
      THEN FsStep(IF IsFile(fs, p) THEN "FileExistsError" ELSE "NotADirectoryError", fs)
      ELSE FsStep("", [fs EXCEPT !.dirs = fs.dirs \cup prefixes])

\* Path.mkdir(exist_ok=True)
Mkdir(fs, p) ==
  IF IsDir(fs, p) THEN FsStep("", fs)
  ELSE IF IsFile(fs, p) THEN FsStep("FileExistsError", fs)
  ELSE IF IsFile(fs, Parent(p)) THEN FsStep("NotADirectoryError", fs)
  ELSE IF ~IsDir(fs, Parent(p)) THEN FsStep("FileNotFoundError", fs)
  ELSE FsStep("", [fs EXCEPT !.dirs = fs.dirs \cup {p}])

\* The entries of directory d (os.listdir, Path.iterdir): one component each.
Entries(fs, d) ==
  {p \in fs.dirs \cup DOMAIN fs.files :
     /\ Len(p) = Len(d) + 1
     /\ SubSeq(p, 1, Len(d)) = d
     /\ IsAbsolute(p) = IsAbsolute(d)}

\* ------------------------------------------- tools.extract_custom_location

\* \s of the re module, the quotes, and what the group [^"'\n\r] leaves out.
ReSpace == {" ", "TAB", "NL", "CR", "FF", "VT"}

Quotes == {"\"", "'"}

NotInGroup == Quotes \cup {"NL", "CR"}

\* sub occurs in s at index i.
OccursAt(s, sub, i) ==
  /\ i >= 1
  /\ i + Len(sub) - 1 <= Len(s)
  /\ \A j \in 1..Len(sub) : s[i + j - 1] = sub[j]

\* (?:\s|$) matches at index j.
AtEnd(q, j) == j = Len(q) + 1 \/ (j <= Len(q) /\ q[j] \in ReSpace)

\* ["\']?(?:\s|$) matches at index j.
CloseOK(q, j) ==
  \/ (j <= Len(q) /\ q[j] \in Quotes /\ AtEnd(q, j + 1))
  \/ AtEnd(q, j)

\* The lengths g for which ([^"\'\n\r]+?)["\']?(?:\s|$) matches at index i with
\* a group of g characters; the lazy group takes the least.
GroupLens(q, i) ==
  {g \in 1..(Len(q) - i + 1) :
     /\ \A k \in i..(i + g - 1) : q[k] \notin NotInGroup
     /\ CloseOK(q, i + g)}

\* Where the group starts after a separator run of w characters from index p:
\* the optional opening quote is taken when it is there.
GroupStart(q, p, w) ==
  IF p + w <= Len(q) /\ q[p + w] \in Quotes THEN p + w + 1 ELSE p + w

\* The lengths w >= 1 of a run of separators from index p after which the rest
\* of the pattern matches; the greedy run takes the greatest.
SepRuns(q, p, seps) ==
  {w \in 1..(Len(q) - p + 1) :
     /\ \A k \in p..(p + w - 1) : q[k] \in seps
     /\ GroupLens(q, GroupStart(q, p, w)) # {}}

\* group(1) of the match whose separator run starts at index p.
GroupFrom(q, p, seps) ==
  LET runs == SepRuns(q, p, seps)
      w    == CHOOSE x \in runs : \A y \in runs : y <= x
      lo   == GroupStart(q, p, w)
      lens == GroupLens(q, lo)
      g    == CHOOSE x \in lens : \A y \in lens : x <= y
  IN  SubSeq(q, lo, lo + g - 1)

\* Line 134: (?:create|put|save|place).*?(?:in|at|under)\s+ and the group.
Verbs == {<<"c","r","e","a","t","e">>, <<"p","u","t">>, <<"s","a","v","e">>, <<"p","l","a","c","e">>}

Preps == {<<"i","n">>, <<"a","t">>, <<"u","n","d","e","r">>}

\* The preposition that occurs at index t (they start with different letters).
PrepAt(q, t) == CHOOSE pr \in Preps : OccursAt(q, pr, t)

\* The indices t of a preposition that follows a verb at index s after some
\* characters of one line (.*?), and after which the rest of the pattern matches.
PrepStarts(q, s) ==
  {t \in 1..Len(q) :
     \E v \in Verbs :
        /\ OccursAt(q, v, s)
        /\ s + Len(v) <= t
        /\ \A k \in (s + Len(v))..(t - 1) : q[k] # "NL"
        /\ \E pr \in Preps : OccursAt(q, pr, t)
        /\ SepRuns(q, t + Len(PrepAt(q, t)), ReSpace) # {}}

\* re.search of the pattern of line 134: group(1), or <<>> for no match.  The
\* match starts at the leftmost verb that has one, and the lazy .*? stops at
\* the first preposition from which the rest matches.
SearchVerb(q) ==
  LET starts == {s \in 1..Len(q) : PrepStarts(q, s) # {}}
  IN  IF starts = {} THEN <<>>
      ELSE LET s == CHOOSE x \in starts : \A y \in starts : x <= y
               ts == PrepStarts(q, s)
               t == CHOOSE x \in ts : \A y \in ts : x <= y
           IN  GroupFrom(q, t + Len(PrepAt(q, t)), ReSpace)

\* re.search of the patterns of lines 135-138, kw[:\s]+ and the group.
SearchKeyword(q, kw) ==
  LET seps == ReSpace \cup {":"}
      starts == {s \in 1..Len(q) :
                   OccursAt(q, kw, s) /\ SepRuns(q, s + Len(kw), seps) # {}}
  IN  IF starts = {} THEN <<>>
      ELSE LET s == CHOOSE x \in starts : \A y \in starts : x <= y
           IN  GroupFrom(q, s + Len(kw), seps)

\* Line 148: a location that names no folder gives none (<<>>).
Unnamed(location) == IF location \in {<<"c","u","r","r","e","n","t">>, <<"h","e","r","e">>, <<"t","h","i","s">>} THEN <<>> ELSE location

\* Lines 145-149: the location a match gives, <<>> when it gives none.
CleanLocation(group) == Unnamed(StripChar(ReplaceChar(Strip(group), "\\", "/"), "/"))

\* Lines 141-151: the location of the first pattern that gives one, <<>> for
\* None.
FirstLocation(found) ==
  LET hits == {i \in 1..Len(found) : found[i] # <<>>}
  IN  IF hits = {} THEN <<>>
      ELSE found[CHOOSE i \in hits : \A j \in hits : i <= j]

\* What the patterns of location_patterns give for the lowered query, in
\* their order.
LocationsFound(q) ==
  << CleanLocation(SearchVerb(q)),
     CleanLocation(SearchKeyword(q, <<"l","o","c","a","t","i","o","n">>)),
     CleanLocation(SearchKeyword(q, <<"f","o","l","d","e","r">>)),
     CleanLocation(SearchKeyword(q, <<"d","i","r","e","c","t","o","r","y">>)),
     CleanLocation(SearchKeyword(q, <<"p","a","t","h">>)) >>

\* extract_custom_location(user_query) for a str that is not empty.
extract_custom_location(user_query) == FirstLocation(LocationsFound(Lower(user_query)))
\* ----------------------------------------------- tools.detect_project_type

\* project_patterns, in the order of the dict.
project_patterns ==
  << [project |-> <<"t","o","d","o">>,       keywords |-> {<<"t","o","d","o">>, <<"t","a","s","k">>, <<"c","h","e","c","k","l","i","s","t">>}],
     [project |-> <<"c","a","l","c","u","l","a","t","o","r">>, keywords |-> {<<"c","a","l","c">>, <<"c","a","l","c","u","l","a","t","o","r">>, <<"m","a","t","h">>}],
     [project |-> <<"w","e","a","t","h","e","r">>,    keywords |-> {<<"w","e","a","t","h","e","r">>, <<"f","o","r","e","c","a","s","t">>, <<"c","l","i","m","a","t","e">>}],
     [project |-> <<"b","l","o","g">>,       keywords |-> {<<"b","l","o","g">>, <<"p","o","s","t">>, <<"a","r","t","i","c","l","e">>}],
     [project |-> <<"p","o","r","t","f","o","l","i","o">>,  keywords |-> {<<"p","o","r","t","f","o","l","i","o">>, <<"r","e","s","u","m","e">>, <<"c","v">>}],
     [project |-> <<"e","c","o","m","m","e","r","c","e">>,  keywords |-> {<<"s","h","o","p">>, <<"s","t","o","r","e">>, <<"c","a","r","t">>, <<"e","c","o","m","m","e","r","c","e">>}],
     [project |-> <<"d","a","s","h","b","o","a","r","d">>,  keywords |-> {<<"d","a","s","h","b","o","a","r","d">>, <<"a","d","m","i","n">>, <<"p","a","n","e","l">>}],
     [project |-> <<"c","h","a","t">>,       keywords |-> {<<"c","h","a","t">>, <<"m","e","s","s","a","g","e">>, <<"m","e","s","s","e","n","g","e","r">>}],
     [project |-> <<"g","a","m","e">>,       keywords |-> {<<"g","a","m","e">>, <<"p","u","z","z","l","e">>, <<"p","l","a","y">>}],
     [project |-> <<"l","a","n","d","i","n","g">>,    keywords |-> {<<"l","a","n","d","i","n","g">>, <<"h","o","m","e">>, <<"i","n","d","e","x">>}] >>

\* Lines 173-175 and 179-181: the first project with a keyword in text, as
\* "<project>_app"; <<>> when no keyword is in it.
KeywordProject(text) ==
  LET hits == {i \in 1..Len(project_patterns) :
                 \E k \in project_patterns[i].keywords : Contains(k, text)}
  IN  IF hits = {} THEN <<>>
      ELSE project_patterns[CHOOSE i \in hits : \A j \in hits : i <= j].project \o <<"_","a","p","p">>

Digits == {"0", "1", "2", "3", "4", "5", "6", "7", "8", "9"}

\* \w, and what [^\w\s-] keeps.
WordChars ==
  {UpperCase[i] : i \in 1..Len(UpperCase)} \cup {LowerCase[i] : i \in 1..Len(LowerCase)}
    \cup Digits \cup {"_"}

TitleKeeps == WordChars \cup ReSpace \cup {"-"}

\* re.sub(r'[-\s]+', '_', s): every run of hyphens and spaces becomes one "_".
RECURSIVE SubRuns(_)
SubRuns(s) ==
  IF s = <<>> THEN <<>>
  ELSE IF s[1] \in ReSpace \cup {"-"}
    THEN IF Len(s) > 1 /\ s[2] \in ReSpace \cup {"-"}
         THEN SubRuns(Tail(s))
         ELSE <<"_">> \o SubRuns(Tail(s))
  ELSE <<s[1]>> \o SubRuns(Tail(s))

\* re.search(r'<title>(.*?)</title>', content, re.IGNORECASE): the pairs of the
\* index of <title> and the index of the </title> that closes it on its line.
TitleSpans(content) ==
  LET c == Lower(content)
  IN  {sp \in (1..Len(c)) \X (1..Len(c)) :
         /\ OccursAt(c, <<"<","t","i","t","l","e",">">>, sp[1])
         /\ sp[1] + 7 <= sp[2]
         /\ OccursAt(c, <<"<","/","t","i","t","l","e",">">>, sp[2])
         /\ \A k \in (sp[1] + 7)..(sp[2] - 1) : content[k] # "NL"}

\* Lines 185-192: the folder name the title gives, <<>> when it gives none.
TitleProject(content) ==
  LET spans == TitleSpans(content)
  IN  IF spans = {} THEN <<>>
      ELSE LET a == CHOOSE x \in {sp[1] : sp \in spans} : \A sp \in spans : x <= sp[1]
               b == CHOOSE y \in {sp[2] : sp \in {z \in spans : z[1] = a}} :
                      \A sp \in {z \in spans : z[1] = a} : y <= sp[2]
               title == Strip(SubSeq(content, a + 7, b - 1))
               kept == Strip(SelectSeq(title, LAMBDA ch : ch \in TitleKeeps))
               clean_title == Lower(SubRuns(kept))
           IN  IF Len(clean_title) > 2 THEN clean_title ELSE <<>>

\* What detect_project_type and detect_project_name_and_location come to: the
\* exception raised ("" for none), the project name and the base location,
\* <<>> for None.
Detected(exc, name, base) == [exc |-> exc, name |-> name, base |-> base]

\* Lines 195-200: the project the extension of the file name gives.
TypeOfExtension(file_path) ==
  IF \E ext \in {<<".","h","t","m","l">>, <<".","c","s","s">>, <<".","j","s">>} : EndsWith(file_path, ext)
    THEN Detected("", <<"w","e","b","_","a","p","p">>, <<>>)
  ELSE IF EndsWith(file_path, <<".","p","y">>)
    THEN Detected("", <<"p","y","t","h","o","n","_","p","r","o","j","e","c","t">>, <<>>)
  ELSE Detected("", <<>>, <<>>)

\* Lines 184-192, given the folder name the title gives.
TypeOfTitle(file_path, clean_title) ==
  IF clean_title # <<>> THEN Detected("", clean_title, <<>>)
  ELSE TypeOfExtension(file_path)

\* Lines 178-181, given the project of the keywords in content.
TypeOfContent(file_path, content, by_keyword) ==
  IF by_keyword # <<>> THEN Detected("", by_keyword, <<>>)
  ELSE IF EndsWith(file_path, <<".","h","t","m","l">>) THEN TypeOfTitle(file_path, TitleProject(content))
  ELSE TypeOfExtension(file_path)

\* Lines 172-175, given the project of the keywords in the file name; content
\* is looked at only when the file name holds no keyword, and a content that
\* is no str has no lower().
TypeOfName(file_path, content, by_keyword) ==
  IF by_keyword # <<>> THEN Detected("", by_keyword, <<>>)
  ELSE IF ~IsStr(content) THEN Detected("AttributeError", <<>>, <<>>)
  ELSE TypeOfContent(file_path, content.s, KeywordProject(Lower(content.s)))

\* The keywords are looked for in content before they are looked for in the
\* file name.
detect_project_type_content_first(file_path, content) ==
  IF ~IsStr(content) THEN Detected("AttributeError", <<>>, <<>>)
  ELSE IF KeywordProject(Lower(content.s)) # <<>>
    THEN Detected("", KeywordProject(Lower(content.s)), <<>>)
  ELSE TypeOfName(file_path, content, KeywordProject(Lower(file_path)))

\* detect_project_type(file_path, content) for a str file_path.
detect_project_type(file_path, content) ==
  TypeOfName(file_path, content, KeywordProject(Lower(file_path)))

\* Lines 115-122, given the custom location and the project.
Located(custom_location, project) ==
  IF project.exc # "" THEN project
  ELSE IF custom_location # <<>> THEN Detected("", project.name, custom_location)
  ELSE Detected("", project.name, IF project.name # <<>> THEN <<"a","i","_","p","r","o","j","e","c","t","s">> ELSE <<>>)

\* As line 110 would be if it looked for '/' alone.
detect_slash_only(file_path, content, user_query) ==
  IF Contains(<<"/">>, file_path)
    THEN Detected("", <<>>, <<>>)
  ELSE IF Truthy(user_query) /\ ~IsStr(user_query)
    THEN Detected("AttributeError", <<>>, <<>>)
  ELSE Located(IF Truthy(user_query) THEN extract_custom_location(user_query.s) ELSE <<>>,
               detect_project_type(file_path, content))

\* detect_project_name_and_location(file_path, content, user_query) for a str
\* file_path.  A user_query that is true and no str has no lower() (line 130).
detect_project_name_and_location(file_path, content, user_query) ==
  IF Contains(<<"/">>, file_path) \/ Contains(<<"\\">>, file_path)
    THEN Detected("", <<>>, <<>>)
  ELSE IF Truthy(user_query) /\ ~IsStr(user_query)
    THEN Detected("AttributeError", <<>>, <<>>)
  ELSE Located(IF Truthy(user_query) THEN extract_custom_location(user_query.s) ELSE <<>>,
               detect_project_type(file_path, content))
\* ------------------------------------------------------ the file tools

\* What a call of a file tool comes to in all: what it returns or raises, and
\* the file system it leaves.  A tool is given by the set of the outcomes a
\* call can have.
FsOutcome(ret, fs) == [ret |-> ret, fs |-> fs]

\* Line 209: the file goes into a project folder.
Organized(d) == d.name # <<>> /\ d.base # <<>>

\* Lines 211-214: base_path / project_name.
ProjectPath(d) == JoinPath(PathOf(d.base), PathOf(d.name))

\* Line 215, after line 212 came to made_base.
MakeProject(made_base, d) ==
  IF made_base.exc # "" THEN made_base ELSE Mkdir(made_base.fs, ProjectPath(d))

\* Lines 209-215: the folders are made, if the file goes into one.
MakeFolders(fs, d) ==
  IF Organized(d) THEN MakeProject(MkdirParents(fs, PathOf(d.base)), d)
  ELSE FsStep("", fs)

\* Line 218: the path the file is opened at, as str.
TargetPath(file_path, d) ==
  IF Organized(d) THEN PathStr(JoinPath(ProjectPath(d), PathOf(file_path)))
  ELSE file_path

\* Lines 226-229, after open came to opened: a content that is no str cannot
\* be written to the file that was opened.
WriteContent(opened, target, content, kind) ==
  IF opened.exc # "" THEN FsOutcome(Raise(opened.exc), opened.fs)
  ELSE IF ~IsStr(content) THEN FsOutcome(Raise("TypeError"), opened.fs)
  ELSE FsOutcome(Text(kind, target, <<>>, 0), opened.fs)

\* Lines 226-229, after the folders came to made.
CreateAt(made, target, content) ==
  IF made.exc # "" THEN FsOutcome(Raise(made.exc), made.fs)
  ELSE WriteContent(OpenWrite(made.fs, target, IF IsStr(content) THEN content.s ELSE <<>>),
                    target, content, "created")

\* Lines 209-229, after line 207 came to d.
CreateDetected(file_path, content, fs, d) ==
  IF d.exc # "" THEN FsOutcome(Raise(d.exc), fs)
  ELSE CreateAt(MakeFolders(fs, d), TargetPath(file_path, d), content)

\* Lines 206-229, the try block of create_file: the exception it raises, if
\* any, and the file system at that point.  The folders are made before the
\* file is opened, and the file is opened before content is written.  None
\* and an int cannot be searched for '/' (line 110); a list can, and has no
\* lower() (lines 130 and 172).
create_file_try(file_path, content, user_query, fs) ==
  IF ~IsStr(file_path)
    THEN {FsOutcome(Raise(IF file_path.ty = "list" THEN "AttributeError" ELSE "TypeError"), fs)}
  ELSE {CreateDetected(file_path.s, content, fs,
                       detect_project_name_and_location(file_path.s, content, user_query))}

\* Lines 230-231, 259-260, 288-289 and 318-319: the except clause turns an
\* exception of the try block into the error text of the tool.
Guarded(outcomes, kind) ==
  { IF r.ret.raised THEN FsOutcome(ErrorText(kind, r.ret.exc), r.fs) ELSE r
    : r \in outcomes }

\* create_file(file_path, content, user_query), lines 203-231.
create_file(file_path, content, user_query, fs) ==
  Guarded(create_file_try(file_path, content, user_query, fs), "error_creating")

\* Lines 238-254 and 267-283: the paths the search of read_file and write_file
\* can end at, as str.  Directories are listed in no fixed order, so each
\* match of a loop can be the one the loop breaks at; the second loop runs
\* on whatever the first one left.
InProjects(file_path, fs) ==
  {f \in Entries(fs, <<<<"a","i","_","p","r","o","j","e","c","t","s">>>>) :
     IsDir(fs, f) /\ Exists(fs, JoinPath(f, PathOf(file_path)))}

InLegacy(file_path, fs) ==
  {i \in Entries(fs, <<>>) :
     IsDir(fs, i) /\ i # <<<<"a","i","_","p","r","o","j","e","c","t","s">>>> /\ Exists(fs, JoinPath(i, PathOf(file_path)))}

AfterProjects(file_path, fs) ==
  IF InProjects(file_path, fs) = {} THEN {file_path}
  ELSE {PathStr(JoinPath(f, PathOf(file_path))) : f \in InProjects(file_path, fs)}

AfterLegacy(file_path, fs) ==
  IF InLegacy(file_path, fs) = {} THEN {file_path}
  ELSE {PathStr(JoinPath(i, PathOf(file_path))) : i \in InLegacy(file_path, fs)}

Resolved(file_path, fs) ==
  IF Exists(fs, PathOf(file_path)) /\ file_path # <<>> THEN {file_path}
  ELSE UNION {AfterLegacy(cur, fs) : cur \in AfterProjects(file_path, fs)}

\* The search of lines 238-254 for a file_path that is no str: os.path.exists
\* raises TypeError for None and a list; an int is taken for a descriptor that
\* is not open, so the search goes on and raises at the first folder it joins
\* file_path to, and open raises when there is no folder.
NoStrSearch(file_path, fs) ==
  IF file_path.ty # "int" THEN "TypeError"
  ELSE IF IsFile(fs, <<<<"a","i","_","p","r","o","j","e","c","t","s">>>>) THEN "NotADirectoryError"
  ELSE IF \/ \E f \in Entries(fs, <<<<"a","i","_","p","r","o","j","e","c","t","s">>>>) : IsDir(fs, f)
          \/ \E i \in Entries(fs, <<>>) : IsDir(fs, i) /\ i # <<<<"a","i","_","p","r","o","j","e","c","t","s">>>>
    THEN "TypeError"
  ELSE "OSError"

\* ai_projects exists and is no directory: Path.iterdir raises (line 242).
ProjectsIsFile(file_path, fs) ==
  /\ ~(Exists(fs, PathOf(file_path)) /\ file_path # <<>>)
  /\ IsFile(fs, <<<<"a","i","_","p","r","o","j","e","c","t","s">>>>)

\* Lines 256-258, after open came to exc.
ReadAt(exc, p, fs) ==
  IF exc # "" THEN FsOutcome(Raise(exc), fs)
  ELSE FsOutcome(Text("contents", p, fs.files[PathOf(p)], 0), fs)

\* Lines 237-258, the try block of read_file: every outcome it can have.
read_file_try(file_path, fs) ==
  IF ~IsStr(file_path) THEN {FsOutcome(Raise(NoStrSearch(file_path, fs)), fs)}
  ELSE IF ProjectsIsFile(file_path.s, fs) THEN {FsOutcome(Raise("NotADirectoryError"), fs)}
  ELSE {ReadAt(OpenRead(fs, p), p, fs) : p \in Resolved(file_path.s, fs)}

\* read_file(file_path), lines 234-260.
read_file(file_path, fs) == Guarded(read_file_try(file_path, fs), "error_reading")

\* Lines 266-287, the try block of write_file: every outcome it can have.
write_file_try(file_path, content, fs) ==
  IF ~IsStr(file_path) THEN {FsOutcome(Raise(NoStrSearch(file_path, fs)), fs)}
  ELSE IF ProjectsIsFile(file_path.s, fs) THEN {FsOutcome(Raise("NotADirectoryError"), fs)}
  ELSE {WriteContent(OpenWrite(fs, p, IF IsStr(content) THEN content.s ELSE <<>>),
                     p, content, "updated")
        : p \in Resolved(file_path.s, fs)}

\* write_file(file_path, content), lines 263-289.
write_file(file_path, content, fs) ==
  Guarded(write_file_try(file_path, content, fs), "error_writing")

\* Lines 302-304: the lines that, stripped, start with one of the prefixes.
LinesStarting(lines, prefixes) ==
  SelectSeq(lines, LAMBDA l : \E pre \in prefixes : StartsWith(Strip(l), pre))

\* Lines 314-315: the first five imports, stripped.
Shown(imports) ==
  [i \in 1..(IF Len(imports) < 5 THEN Len(imports) ELSE 5) |-> Strip(imports[i])]

\* Lines 298-317: the report on the lines of the file.
Analysis(file_path, lines, imports, fs) ==
  FsOutcome(Result(FALSE, "analysis", file_path, <<>>, 0,
                   << Len(lines), Len(imports), Len(LinesStarting(lines, {<<"d","e","f"," ">>})),
                      Len(LinesStarting(lines, {<<"c","l","a","s","s"," ">>})) >>,
                   Shown(imports), ""), fs)

AnalyzeLines(file_path, lines, fs) ==
  Analysis(file_path, lines, LinesStarting(lines, {<<"i","m","p","o","r","t"," ">>, <<"f","r","o","m"," ">>}), fs)

\* Lines 295-296, after open came to exc.
AnalyzeAt(exc, file_path, fs) ==
  IF exc # "" THEN FsOutcome(Raise(exc), fs)
  ELSE AnalyzeLines(file_path, Split(fs.files[PathOf(file_path)], "NL"), fs)

\* analyze_code with the search of read_file before the file is opened.
analyze_code_searching(file_path, fs) ==
  IF ~IsStr(file_path)
    THEN {FsOutcome(Raise(IF file_path.ty = "int" THEN "OSError" ELSE "TypeError"), fs)}
  ELSE {AnalyzeAt(OpenRead(fs, p), p, fs) : p \in Resolved(file_path.s, fs)}

\* Lines 295-317, the try block of analyze_code: the literal path is opened.
analyze_code_try(file_path, fs) ==
  IF ~IsStr(file_path)
    THEN {FsOutcome(Raise(IF file_path.ty = "int" THEN "OSError" ELSE "TypeError"), fs)}
  ELSE {AnalyzeAt(OpenRead(fs, file_path.s), file_path.s, fs)}

\* analyze_code(file_path), lines 292-319.
analyze_code(file_path, fs) == Guarded(analyze_code_try(file_path, fs), "error_analyzing")
\* ------------------------------------------- assistant_core.run_assistant

\* The keys of AVAILABLE_TOOLS.
available_tools ==
  {<<"r","u","n","_","c","o","m","m","a","n","d">>, <<"c","r","e","a","t","e","_","f","i","l","e">>, <<"r","e","a","d","_","f","i","l","e">>, <<"w","r","i","t","e","_","f","i","l","e">>, <<"a","n","a","l","y","z","e","_","c","o","d","e">>}

\* message.content of a model response: no content at all (None), a str that
\* is no JSON document, or the JSON text of an array, of a number or of an
\* object with the keys step, content, tool and input (Absent for a key the
\* object does not hold).
Response(form, step, content, tool, input) ==
  [form |-> form, step |-> step, content |-> content, tool |-> tool, input |-> input]

NoContent == Response("none", Absent, Absent, Absent, Absent)
Undecodable == Response("undecodable", Absent, Absent, Absent, Absent)
JsonArray == Response("array", Absent, Absent, Absent, Absent)
JsonNumber == Response("number", Absent, Absent, Absent, Absent)

JsonObject(step, content, tool, input) == Response("object", step, content, tool, input)

\* What stands for raw_result before the first response.
NoResponse == Response("no response", Absent, Absent, Absent, Absent)

\* A decoder that takes whatever it is given for an empty object.
json_loads_lenient(raw) == [exc |-> "", value |-> [raw EXCEPT !.form = "dict"]]

\* json.loads(raw_result), line 175: the exception it raises ("" for none)
\* and the value it gives, a list, an int or a dict.
json_loads(raw) ==
  CASE raw.form = "none"        -> [exc |-> "TypeError", value |-> NoResponse]
    [] raw.form = "undecodable" -> [exc |-> "JSONDecodeError", value |-> NoResponse]
    [] raw.form = "array"       -> [exc |-> "", value |-> [raw EXCEPT !.form = "list"]]
    [] raw.form = "number"      -> [exc |-> "", value |-> [raw EXCEPT !.form = "int"]]
    [] OTHER                    -> [exc |-> "", value |-> [raw EXCEPT !.form = "dict"]]

\* The entries of message_history.
Message(role, content) == [role |-> role, content |-> content]

SystemMessage == Message("system", [prompt |-> "SYSTEM_PROMPT"])

UserMessage(user_query) == Message("user", [query |-> user_query])

AssistantMessage(raw_result) == Message("assistant", [raw_result |-> raw_result])

\* Lines 222-224: the observation of a TOOL step.
Observation(tool_to_call, tool_input, tool_response) ==
  Message("developer", [step |-> "OBSERVE", tool |-> tool_to_call,
                        input |-> tool_input, output |-> tool_response])

\* A dict whose get() gives the default whatever it holds.
Get_default(held, default) == default

\* d.get(key) and d.get(key, default) of a dict, given d[key] or Absent.
Get(held, default) == IF held = Absent THEN default ELSE held

\* The first element of the pair run_assistant returns.  An error string is
\* told by its kind, the exception whose message it holds and the raw response
\* it quotes (lines 177 and 179); the content of an OUTPUT step is the value
\* the step holds, of whatever type (line 227).
ErrorString(kind, exc, raw) ==
  [ty |-> "str", s |-> <<>>, n |-> 0, kind |-> kind, exc |-> exc, raw |-> raw]

ParseError(exc, raw) == ErrorString("Failed to parse AI response as JSON", exc, raw)

ApiError(exc) == ErrorString("API Error", exc, NoResponse)

OutputContent(content) ==
  [ty |-> content.ty, s |-> content.s, n |-> content.n, kind |-> "content", exc |-> "",
   raw |-> NoResponse]

Pair(first, history) == [first |-> first, history |-> history]

\* A failed request that leaves an assistant message without content behind.
FailedCall_logged(message_history) ==
  Pair(ApiError("APIError"), Append(message_history, AssistantMessage(NoContent)))

\* Line 179 for an exception of the request of lines 161-171: the pair that is
\* returned, with message_history as the request left it.
FailedCall(message_history) == Pair(ApiError("APIError"), message_history)

NoReturn == Pair(ErrorString("no return", "", NoResponse), <<>>)

\* Lines 152-157: the history the loop starts with.  The message_history
\* argument is None or a list, which is copied.
NoHistory == [given |-> FALSE, list |-> <<>>]

GivenHistory(list) == [given |-> TRUE, list |-> list]

InitialHistory(history_arg, user_query) ==
  (IF history_arg.given THEN history_arg.list ELSE <<SystemMessage>>)
    \o <<UserMessage(user_query)>>

\* The input split at its last newline.
SplitInput_last_newline(tool_input) ==
  LET ends == {i \in 1..Len(tool_input) : tool_input[i] = "NL"}
      i == IF ends = {} THEN 0 ELSE CHOOSE k \in ends : \A j \in ends : j <= k
  IN  IF i = 0 THEN [file_path |-> Strip(tool_input), content |-> <<>>]
      ELSE [file_path |-> Strip(SubSeq(tool_input, 1, i - 1)),
            content   |-> SubSeq(tool_input, i + 1, Len(tool_input))]

\* Lines 196-198 and 207-209: tool_input.split('\n', 1), the stripped first
\* piece and the rest.
SplitInput(tool_input) ==
  LET i == Find(tool_input, "NL")
  IN  IF i = 0 THEN [file_path |-> Strip(tool_input), content |-> <<>>]
      ELSE [file_path |-> Strip(SubSeq(tool_input, 1, i - 1)),
            content   |-> SubSeq(tool_input, i + 1, Len(tool_input))]

\* What the dispatch of a TOOL step comes to: the tool_response (or the
\* exception raised), the file system it leaves, the commands handed to the
\* shell and the number of tool functions called.
Dispatched(response, fs, calls, invoked) ==
  [response |-> response, fs |-> fs, calls |-> calls, invoked |-> invoked]

\* Lines 189-218, the try block of the TOOL step: every outcome it can have.
\* A list is unhashable, so looking it up in available_tools raises; an input
\* that is true and no str has no split().
dispatch_try(tool_to_call, tool_input, user_query, fs, code) ==
  IF tool_to_call.ty = "list"
    THEN {Dispatched(Raise("TypeError"), fs, <<>>, 0)}
  ELSE IF ~(IsStr(tool_to_call) /\ tool_to_call.s \in available_tools)
    THEN {Dispatched(Text("tool_not_found", tool_to_call.s, <<>>, 0), fs, <<>>, 0)}
  ELSE IF ~Truthy(tool_input)
    THEN {Dispatched(Text("no_input", tool_to_call.s, <<>>, 0), fs, <<>>, 0)}
  ELSE IF tool_to_call.s \in {<<"c","r","e","a","t","e","_","f","i","l","e">>, <<"w","r","i","t","e","_","f","i","l","e">>}
    THEN IF ~IsStr(tool_input)
           THEN {Dispatched(Raise("AttributeError"), fs, <<>>, 0)}
         ELSE IF SplitInput(tool_input.s).file_path = <<>>
           THEN {Dispatched(Text("no_file_path", <<>>, <<>>, 0), fs, <<>>, 0)}
         ELSE LET file_path == PyStr(SplitInput(tool_input.s).file_path)
                  content   == PyStr(SplitInput(tool_input.s).content)
              IN  {Dispatched(r.ret, r.fs, <<>>, 1) :
                     r \in IF tool_to_call.s = <<"c","r","e","a","t","e","_","f","i","l","e">>
                           THEN create_file(file_path, content, user_query, fs)
                           ELSE write_file(file_path, content, fs)}
  ELSE IF tool_to_call.s = <<"r","u","n","_","c","o","m","m","a","n","d">>
    THEN {Dispatched(r.ret, fs, r.calls, 1) :
            r \in {run_command(tool_input,
                               IF IsStr(tool_input) THEN os_system(tool_input.s, code)
                               ELSE NotRun)}}
  ELSE {Dispatched(r.ret, r.fs, <<>>, 1) :
          r \in IF tool_to_call.s = <<"r","e","a","d","_","f","i","l","e">> THEN read_file(tool_input, fs)
                ELSE analyze_code(tool_input, fs)}

\* The dispatch without its except clause.
dispatch_unguarded(tool_to_call, tool_input, user_query, fs, code) ==
  dispatch_try(tool_to_call, tool_input, user_query, fs, code)

\* A dispatch that calls the tool function a second time when it raised.
dispatch_retrying(tool_to_call, tool_input, user_query, fs, code) ==
  { IF d.response.raised
    THEN [d EXCEPT !.response = ErrorText("error_executing_tool", d.response.exc),
                   !.invoked = 2 * d.invoked]
    ELSE d
    : d \in dispatch_try(tool_to_call, tool_input, user_query, fs, code) }

\* Lines 188-220: the except clause turns every exception of the dispatch
\* into the tool_response "Error executing tool ...".
dispatch(tool_to_call, tool_input, user_query, fs, code) ==
  { IF d.response.raised
    THEN [d EXCEPT !.response = ErrorText("error_executing_tool", d.response.exc)]
    ELSE d
    : d \in dispatch_try(tool_to_call, tool_input, user_query, fs, code) }
\* ------------------------------------------ command strings that are tried

\* str.upper(), used only to write the inputs below.
UpperChar(c) ==
  IF \E i \in 1..Len(LowerCase) : LowerCase[i] = c
  THEN UpperCase[CHOOSE i \in 1..Len(LowerCase) : LowerCase[i] = c]
  ELSE c

Upper(s) == [i \in 1..Len(s) |-> UpperChar(s[i])]

\* Commands are built of at most MaxFrags of these fragments ...
Frags ==
  { <<"g","i","t"," ","s","t","a","t","u","s">>,
    <<"g","i","t"," ","l","o","g">>,
    <<"n","p","m"," ","-","-","v","e","r","s","i","o","n">>,
    <<"p","y","t","h","o","n"," ","-","V">>,
    <<"E","c","h","o">>,
    <<" ">>,
    <<" ","&","&"," ">>,
    <<"r","m"," ","-","r","f"," ","/">>,
    <<"c","u","r","l"," ","-","X"," ","P","O","S","T">>,
    <<"NUL">> }

RECURSIVE Built(_)
Built(k) ==
  IF k = 0 THEN {<<>>}
  ELSE LET shorter == Built(k - 1)
       IN  shorter \cup {c \o f : c \in shorter, f \in Frags}

\* ... and every pattern of dangerous_patterns and every entry of
\* DANGEROUS_COMMANDS, as written and in capitals, is tried alone, after a safe
\* prefix and before an argument.
Leads == { <<>>, <<"g","i","t"," ">>, <<"E","c","h","o"," ">> }
Trails == { <<>>, <<" ","x">> }

Seeded ==
  LET seeds == {dangerous_patterns[i] : i \in 1..Len(dangerous_patterns)}
               \cup {DANGEROUS_COMMANDS[i] : i \in 1..Len(DANGEROUS_COMMANDS)}
               \cup {Upper(DANGEROUS_COMMANDS[i]) : i \in 1..Len(DANGEROUS_COMMANDS)}
  IN  {a \o s \o b : a \in Leads, s \in seeds, b \in Trails}

Commands == Built(MaxFrags) \cup Seeded

\* The arguments run_command is called with: every command string, and the
\* values that are no str.
CommandArgs == {PyStr(c) : c \in Commands} \cup {PyNone, PyInt(123)}


\* -------------------------------------------- file systems that are tried

FileSystem(dirs, files) == [dirs |-> dirs, files |-> files]

\* A working directory that holds main.py and no project folder.
PlainFs ==
  FileSystem({<<>>}, (<<<<"m","a","i","n",".","p","y">>>> :> <<"i","m","p","o","r","t"," ","o","s","NL","d","e","f"," ","m","a","i","n","(",")",":","NL"," "," ","p","a","s","s">>))

\* A working directory with todo.py in a project folder of ai_projects and in
\* a folder of its own.
ProjectFs ==
  FileSystem({<<>>, <<<<"a","i","_","p","r","o","j","e","c","t","s">>>>, <<<<"a","i","_","p","r","o","j","e","c","t","s">>, <<"t","o","d","o","_","a","p","p">>>>, <<<<"l","e","g","a","c","y">>>>},
             (<<<<"a","i","_","p","r","o","j","e","c","t","s">>, <<"t","o","d","o","_","a","p","p">>, <<"t","o","d","o",".","p","y">>>> :> <<"t","a","s","k","s"," ","="," ","[","]">>)
               @@ (<<<<"l","e","g","a","c","y">>, <<"t","o","d","o",".","p","y">>>> :> <<"o","l","d">>)
               @@ (<<<<"m","a","i","n",".","p","y">>>> :> <<"i","m","p","o","r","t"," ","o","s">>))

\* A working directory in which ai_projects is a file.
BlockedFs ==
  FileSystem({<<>>}, (<<<<"a","i","_","p","r","o","j","e","c","t","s">>>> :> <<"x">>) @@ (<<<<"m","a","i","n",".","p","y">>>> :> <<"i","m","p","o","r","t"," ","o","s">>))

\* A working directory whose ai_projects, with todo.py in a project folder, was
\* copied into the folder backup before todo.py was written again.
MirrorFs ==
  FileSystem({<<>>, <<<<"a","i","_","p","r","o","j","e","c","t","s">>>>, <<<<"a","i","_","p","r","o","j","e","c","t","s">>, <<"t","o","d","o","_","a","p","p">>>>,
              <<<<"b","a","c","k","u","p">>>>, <<<<"b","a","c","k","u","p">>, <<"a","i","_","p","r","o","j","e","c","t","s">>>>, <<<<"b","a","c","k","u","p">>, <<"a","i","_","p","r","o","j","e","c","t","s">>, <<"t","o","d","o","_","a","p","p">>>>},
             (<<<<"a","i","_","p","r","o","j","e","c","t","s">>, <<"t","o","d","o","_","a","p","p">>, <<"t","o","d","o",".","p","y">>>> :> <<"t","a","s","k","s"," ","="," ","[","]">>)
               @@ (<<<<"b","a","c","k","u","p">>, <<"a","i","_","p","r","o","j","e","c","t","s">>, <<"t","o","d","o","_","a","p","p">>, <<"t","o","d","o",".","p","y">>>> :> <<"s","t","a","l","e">>))

FileSystems == {PlainFs, ProjectFs, BlockedFs, MirrorFs}

\* ----------------------------------------- direct calls of the five tools

ToolNames == {"run_command", "create_file", "read_file", "write_file", "analyze_code"}

\* The values a tool is called with: paths and commands, and values that are
\* no str.
PathArgs ==
  {PyStr(<<"t","o","d","o",".","p","y">>), PyStr(<<"n","o","t","e","s",".","t","x","t">>), PyStr(<<"s","r","c","/","a","p","p",".","p","y">>), PyStr(<<"m","a","i","n",".","p","y">>),
   PyStr(<<"l","e","g","a","c","y","/","n","e","w",".","p","y">>), PyStr(<<"w","i","n","\\","t","o","d","o",".","p","y">>),
   PyStr(<<"p","a","g","e",".","h","t","m","l">>), PyStr(<<"s","t","y","l","e",".","c","s","s">>),
   PyStr(<<"a","i","_","p","r","o","j","e","c","t","s">>), PyStr(<<>>), PyStr(<<"g","i","t"," ","l","o","g">>), PyStr(<<"r","m"," ","-","r","f"," ","/">>),
   PyNone, PyInt(123), PyList(1)}

ContentArgs ==
  {PyStr(<<"t","a","s","k","s"," ","="," ","[","]">>), PyStr(<<>>), PyNone, PyStr(<<"i","m","p","o","r","t"," ","m","a","t","h">>),
   PyStr(<<"<","t","i","t","l","e",">","M","y"," ","S","i","t","e","<","/","t","i","t","l","e",">">>)}

QueryArgs ==
  {PyStr(<<>>), PyStr(<<"C","r","e","a","t","e"," ","a"," ","t","o","d","o"," ","a","p","p">>), PyStr(<<"s","a","v","e"," ","i","t"," ","i","n"," ","f","o","l","d","e","r",":"," ","a","p","p","s">>),
   PyStr(<<"S","a","v","e"," ","i","n"," ","l","o","c","a","t","i","o","n",":"," ","c","u","s","t","o","m","_","a","p","p","s">>), PyInt(123)}

\* ------------------------------------------------ inputs of run_assistant

UserQueries == {PyStr(<<"m","a","k","e"," ","a"," ","t","o","d","o"," ","a","p","p">>), PyStr(<<"s","a","v","e"," ","i","t"," ","i","n"," ","f","o","l","d","e","r",":"," ","a","p","p","s">>)}

Histories ==
  {NoHistory,
   GivenHistory(<<>>),
   GivenHistory(<< SystemMessage, UserMessage(PyStr(<<"h","i">>)),
                   AssistantMessage(JsonObject(PyStr(<<"O","U","T","P","U","T">>), PyStr(<<"h","e","l","l","o">>),
                                               Absent, Absent)) >>)}

ToolStep(tool, input) == JsonObject(PyStr(<<"T","O","O","L">>), Absent, tool, input)

\* The responses the model gives: every kind of step, and TOOL steps for every
\* way the dispatch can go.
Responses ==
  { NoContent, Undecodable, JsonArray, JsonNumber,
    JsonObject(PyStr(<<"S","T","A","R","T">>), PyStr(<<"s","t","a","r","t">>), Absent, Absent),
    JsonObject(PyStr(<<"P","L","A","N">>), PyStr(<<"p","l","a","n">>), Absent, Absent),
    JsonObject(PyStr(<<"T","H","I","N","K">>), PyStr(<<"h","m">>), Absent, Absent),
    JsonObject(Absent, PyStr(<<"h","m">>), Absent, Absent),
    JsonObject(PyStr(<<"O","U","T","P","U","T">>), PyStr(<<"d","o","n","e">>), Absent, Absent),
    JsonObject(PyStr(<<"O","U","T","P","U","T">>), Absent, Absent, Absent),
    JsonObject(PyStr(<<"O","U","T","P","U","T">>), PyNone, Absent, Absent),
    ToolStep(PyStr(<<"r","u","n","_","c","o","m","m","a","n","d">>), PyStr(<<"g","i","t"," ","l","o","g">>)),
    ToolStep(PyStr(<<"r","u","n","_","c","o","m","m","a","n","d">>), PyStr(<<"r","m"," ","-","r","f"," ","/">>)),
    ToolStep(PyStr(<<"r","u","n","_","c","o","m","m","a","n","d">>), PyInt(123)),
    ToolStep(PyStr(<<"c","r","e","a","t","e","_","f","i","l","e">>), PyStr(<<"t","o","d","o",".","p","y","NL","t","a","s","k","s"," ","="," ","[","]">>)),
    ToolStep(PyStr(<<"c","r","e","a","t","e","_","f","i","l","e">>), PyStr(<<" ","NL","x">>)),
    ToolStep(PyStr(<<"r","e","a","d","_","f","i","l","e">>), PyStr(<<"t","o","d","o",".","p","y">>)),
    ToolStep(PyStr(<<"w","r","i","t","e","_","f","i","l","e">>), PyStr(<<"t","o","d","o",".","p","y","NL","o","l","d">>)),
    ToolStep(PyStr(<<"w","r","i","t","e","_","f","i","l","e">>), PyList(1)),
    ToolStep(PyStr(<<"a","n","a","l","y","z","e","_","c","o","d","e">>), PyStr(<<"m","a","i","n",".","p","y">>)),
    ToolStep(PyStr(<<"a","n","a","l","y","z","e","_","c","o","d","e">>), PyStr(<<>>)),
    ToolStep(PyStr(<<"r","e","a","d","_","f","i","l","e">>), Absent),
    ToolStep(PyStr(<<"d","e","l","e","t","e","_","f","i","l","e">>), PyStr(<<"t","o","d","o",".","p","y">>)),
    ToolStep(PyStr(<<>>), PyStr(<<"t","o","d","o",".","p","y">>)),
    ToolStep(Absent, Absent),
    ToolStep(PyNone, PyStr(<<"t","o","d","o",".","p","y">>)),
    ToolStep(PyList(1), PyStr(<<"t","o","d","o",".","p","y">>)) }

\* ------------------------------------------------------------------ state

VARIABLES
  tool_pc,         \* "ready": a tool is about to be called; "returned": it is
                   \* back; "idle": no direct call
  tool_name,       \* the tool of the direct call
  tool_arg,        \* its first argument, a command or a path
  tool_content,    \* the content argument of create_file and write_file
  tool_out,        \* what the direct call came to
  read_back,       \* what read_file came to, called after create_file
  shell,           \* the commands handed to os.system, in order
  fs,              \* the file system
  user_query,      \* run_assistant's user_query, create_file's third argument
  history_arg,     \* run_assistant's message_history argument
  pc,              \* where run_assistant is
  message_history, \* its local message_history
  raw_result,      \* the content of the last response
  parsed_result,   \* what json.loads made of it
  tool_to_call,    \* the locals of the TOOL step
  tool_input,
  tool_response,
  returned,        \* the pair run_assistant returned
  escaped,         \* the exception that left run_assistant, "" for none
  model_calls,     \* the calls of client.chat.completions.create so far
  tool_calls,      \* the calls of tool functions so far
  runs,            \* the locals of the invocations of run_assistant that
                   \* requests handled at the same time have made
  request,         \* the request a handler of the service layer is given
  server_initialized, \* the global of mcp_server.py
  core_key,        \* the api_key run_assistant was called with
  reply,           \* what the handler returned
  client_capabilities, \* the other global of mcp_server.py
  rpc,             \* the requests to /mcp/rpc of one server process, each with
                   \* its stage and its response
  children         \* the two Process objects of hybrid_server.main

call_vars == <<tool_pc, tool_name, tool_arg, tool_content, tool_out, read_back>>

loop_vars == <<history_arg, pc, message_history, raw_result, parsed_result, tool_to_call,
               tool_input, tool_response, returned, escaped, model_calls, tool_calls>>

server_vars == <<runs, request, server_initialized, core_key, reply, client_capabilities, rpc,
                 children>>

\* No request.
NoRequest == [endpoint |-> "none", api_key |-> Absent, user_input |-> Absent]

Reply(kind, code, message, response) ==
  [kind |-> kind, code |-> code, message |-> message, response |-> response]

NoReply == Reply("none", 0, "", Absent)

\* A JSON object, told by what it holds.
PyDict(s) == [ty |-> "dict", s |-> s, n |-> 0]

\* Line 78: client_capabilities = {}.
NoCapabilities == PyDict(<<>>)

\* A Process object: whether start() was called and the process has ended
\* ("unstarted", "running", "exited"), whether terminate() has sent it
\* SIGTERM, its exitcode (None while there is none) and whether join() has
\* returned for it.
Child(state, signalled, exitcode, joined) ==
  [state |-> state, signalled |-> signalled, exitcode |-> exitcode, joined |-> joined]

\* hybrid_server.py lines 35-36: Process(target=...), not started.
NewChild == Child("unstarted", FALSE, PyNone, FALSE)

ChildNames == {"simple_api_process", "mcp_server_process"}

NoChildren == [name \in ChildNames |-> NewChild]

\* No handler of the service layer runs.
ServerIdle ==
  /\ request = NoRequest
  /\ server_initialized = FALSE
  /\ core_key = Absent
  /\ reply = NoReply
  /\ client_capabilities = NoCapabilities
  /\ rpc = <<>>
  /\ children = NoChildren

vars == <<call_vars, loop_vars, server_vars, shell, fs, user_query>>

NoCall == Raise("no call")

\* No run of run_assistant.
LoopIdle ==
  /\ history_arg = NoHistory
  /\ pc = "idle"
  /\ message_history = <<>>
  /\ raw_result = NoResponse
  /\ parsed_result = NoResponse
  /\ tool_to_call = Absent
  /\ tool_input = Absent
  /\ tool_response = NoCall
  /\ returned = NoReturn
  /\ escaped = ""
  /\ model_calls = 0
  /\ tool_calls = 0

\* ------------------------------------------------- run_command on its own

\* A caller (the loop, tools/call of the MCP server) is about to call
\* run_command with some value.
InitCmd ==
  /\ tool_pc = "ready"
  /\ tool_name = "run_command"
  /\ tool_arg \in CommandArgs
  /\ tool_content = Absent
  /\ tool_out = NoCall
  /\ read_back = NoCall
  /\ shell = <<>>
  /\ fs = PlainFs
  /\ user_query = PyStr(<<>>)
  /\ LoopIdle
  /\ runs = <<>>
  /\ ServerIdle

\* The call run_command(tool_arg), lines 11-104.
RunCommand ==
  /\ tool_pc = "ready"
  /\ tool_name = "run_command"
  /\ \E code \in ExitCodes :
       \E res \in {run_command(tool_arg, IF IsStr(tool_arg) THEN os_system(tool_arg.s, code)
                                         ELSE NotRun)} :
          /\ tool_out' = res.ret
          /\ shell' = shell \o res.calls
  /\ tool_pc' = "returned"
  /\ UNCHANGED <<tool_name, tool_arg, tool_content, read_back, fs, user_query, loop_vars, server_vars>>

NextCmd == RunCommand

SpecCmd == InitCmd /\ [][NextCmd]_vars

\* ------------------------------------------------ the five tools, called

\* A caller is about to call one of the tools with some values, in some file
\* system.
InitTools ==
  /\ tool_pc = "ready"
  /\ tool_name \in ToolNames
  /\ tool_arg \in PathArgs
  /\ tool_content \in (IF tool_name \in {"create_file", "write_file"}
                       THEN ContentArgs ELSE {Absent})
  /\ tool_out = NoCall
  /\ read_back = NoCall
  /\ shell = <<>>
  /\ fs \in FileSystems
  /\ user_query \in (IF tool_name = "create_file" THEN QueryArgs ELSE {PyStr(<<>>)})
  /\ LoopIdle
  /\ runs = <<>>
  /\ ServerIdle

\* The call create_file(tool_arg, tool_content, user_query), lines 203-231.
CreateFile ==
  /\ tool_pc = "ready"
  /\ tool_name = "create_file"
  /\ \E res \in create_file(tool_arg, tool_content, user_query, fs) :
       /\ tool_out' = res.ret
       /\ fs' = res.fs
  /\ tool_pc' = "returned"
  /\ UNCHANGED <<tool_name, tool_arg, tool_content, read_back, shell, user_query, loop_vars, server_vars>>

\* The call read_file(tool_arg), lines 234-260.
ReadFile ==
  /\ tool_pc = "ready"
  /\ tool_name = "read_file"
  /\ \E res \in read_file(tool_arg, fs) :
       /\ tool_out' = res.ret
       /\ fs' = res.fs
  /\ tool_pc' = "returned"
  /\ UNCHANGED <<tool_name, tool_arg, tool_content, read_back, shell, user_query, loop_vars, server_vars>>

\* The call write_file(tool_arg, tool_content), lines 263-289.
WriteFile ==
  /\ tool_pc = "ready"
  /\ tool_name = "write_file"
  /\ \E res \in write_file(tool_arg, tool_content, fs) :
       /\ tool_out' = res.ret
       /\ fs' = res.fs
  /\ tool_pc' = "returned"
  /\ UNCHANGED <<tool_name, tool_arg, tool_content, read_back, shell, user_query, loop_vars, server_vars>>

\* The call analyze_code(tool_arg), lines 292-319.
AnalyzeCode ==
  /\ tool_pc = "ready"
  /\ tool_name = "analyze_code"
  /\ \E res \in analyze_code(tool_arg, fs) :
       /\ tool_out' = res.ret
       /\ fs' = res.fs
  /\ tool_pc' = "returned"
  /\ UNCHANGED <<tool_name, tool_arg, tool_content, read_back, shell, user_query, loop_vars, server_vars>>

\* The caller of create_file reads the file back under the name it gave:
\* read_file(tool_arg), lines 234-260, on the file system create_file left.
ReadBack ==
  /\ tool_pc = "returned"
  /\ tool_name = "create_file"
  /\ \E res \in read_file(tool_arg, fs) :
       /\ read_back' = res.ret
       /\ fs' = res.fs
  /\ tool_pc' = "read"
  /\ UNCHANGED <<tool_name, tool_arg, tool_content, tool_out, shell, user_query, loop_vars, server_vars>>

NextTools == RunCommand \/ CreateFile \/ ReadFile \/ WriteFile \/ AnalyzeCode \/ ReadBack

SpecTools == InitTools /\ [][NextTools]_vars

\* ---------------------------------------------------- run_assistant, run

\* run_assistant is called with a query and, maybe, a history.
Init ==
  /\ tool_pc = "idle"
  /\ tool_name = "none"
  /\ tool_arg = Absent
  /\ tool_content = Absent
  /\ tool_out = NoCall
  /\ read_back = NoCall
  /\ shell = <<>>
  /\ fs = PlainFs
  /\ user_query \in UserQueries
  /\ history_arg \in Histories
  /\ pc = "entry"
  /\ message_history = <<>>
  /\ raw_result = NoResponse
  /\ parsed_result = NoResponse
  /\ tool_to_call = Absent
  /\ tool_input = Absent
  /\ tool_response = NoCall
  /\ returned = NoReturn
  /\ escaped = ""
  /\ model_calls = 0
  /\ tool_calls = 0
  /\ runs = <<>>
  /\ ServerIdle

\* The history is seeded without the copy of line 156: the query is appended
\* to the list of the caller.
Start_in_place ==
  /\ pc = "entry"
  /\ message_history' = InitialHistory(history_arg, user_query)
  /\ history_arg' = IF history_arg.given
                      THEN [history_arg EXCEPT !.list = message_history']
                      ELSE history_arg
  /\ pc' = "call"
  /\ UNCHANGED <<call_vars, server_vars, shell, fs, user_query, raw_result, parsed_result,
                 tool_to_call, tool_input, tool_response, returned, escaped, model_calls,
                 tool_calls>>

\* Lines 152-157: the history is seeded and the query appended.
Start ==
  /\ pc = "entry"
  /\ message_history' = InitialHistory(history_arg, user_query)
  /\ pc' = "call"
  /\ UNCHANGED <<call_vars, server_vars, shell, fs, user_query, history_arg, raw_result, parsed_result,
                 tool_to_call, tool_input, tool_response, returned, escaped, model_calls,
                 tool_calls>>

\* The model is called as if the loop gave up after its first iteration.
ModelCall_capped ==
  /\ pc = "call"
  /\ model_calls < MaxCalls
  /\ IF model_calls >= 1
       THEN /\ returned' = Pair(ErrorString("iteration cap", "", NoResponse), message_history)
            /\ pc' = "done"
            /\ UNCHANGED <<message_history, raw_result, model_calls>>
     ELSE /\ model_calls' = model_calls + 1
          /\ \/ /\ returned' = FailedCall(message_history)
                /\ pc' = "done"
                /\ UNCHANGED <<message_history, raw_result>>
             \/ \E r \in Responses :
                  /\ raw_result' = r
                  /\ message_history' = Append(message_history, AssistantMessage(r))
                  /\ pc' = "parse"
                  /\ UNCHANGED returned
  /\ UNCHANGED <<call_vars, server_vars, shell, fs, user_query, history_arg, parsed_result, tool_to_call,
                 tool_input, tool_response, escaped, tool_calls>>

\* Lines 161-173 and 178-179: the model is called.  The request fails, and
\* run_assistant returns the API error with the history as it is, or the
\* response's content is appended as an assistant message.
ModelCall ==
  /\ pc = "call"
  /\ model_calls < MaxCalls
  /\ model_calls' = model_calls + 1
  /\ \/ /\ returned' = FailedCall(message_history)
        /\ pc' = "done"
        /\ UNCHANGED <<message_history, raw_result>>
     \/ \E r \in Responses :
          /\ raw_result' = r
          /\ message_history' = Append(message_history, AssistantMessage(r))
          /\ pc' = "parse"
          /\ UNCHANGED returned
  /\ UNCHANGED <<call_vars, server_vars, shell, fs, user_query, history_arg, parsed_result, tool_to_call,
                 tool_input, tool_response, escaped, tool_calls>>

\* Lines 174-179: the content is decoded.  JSONDecodeError is caught by the
\* inner except clause, any other exception by the outer one.
Parse ==
  /\ pc = "parse"
  /\ LET decoded == json_loads(raw_result)
     IN  IF decoded.exc = "JSONDecodeError"
           THEN /\ returned' = Pair(ParseError(decoded.exc, raw_result), message_history)
                /\ pc' = "done"
                /\ UNCHANGED parsed_result
         ELSE IF decoded.exc # ""
           THEN /\ returned' = Pair(ApiError(decoded.exc), message_history)
                /\ pc' = "done"
                /\ UNCHANGED parsed_result
         ELSE /\ parsed_result' = decoded.value
              /\ pc' = "route"
              /\ UNCHANGED returned
  /\ UNCHANGED <<call_vars, server_vars, shell, fs, user_query, history_arg, message_history, raw_result,
                 tool_to_call, tool_input, tool_response, escaped, model_calls, tool_calls>>

\* The step of a decoded dict is the str name (lines 182, 185, 226).
StepIs(parsed, name) == parsed.step = PyStr(name)

\* The step is looked at as if every step that is none of START, PLAN and
\* OUTPUT were a TOOL step.
Route_tool_by_default ==
  /\ pc = "route"
  /\ IF parsed_result.form # "dict"
       THEN /\ escaped' = "AttributeError"
            /\ pc' = "raised"
            /\ UNCHANGED returned
     ELSE IF StepIs(parsed_result, <<"S","T","A","R","T">>) \/ StepIs(parsed_result, <<"P","L","A","N">>)
       THEN /\ pc' = "call"
            /\ UNCHANGED <<returned, escaped>>
     ELSE IF StepIs(parsed_result, <<"O","U","T","P","U","T">>)
       THEN /\ returned' = Pair(OutputContent(Get(parsed_result.content, PyStr(<<>>))),
                                message_history)
            /\ pc' = "done"
            /\ UNCHANGED escaped
     ELSE /\ pc' = "tool"
          /\ UNCHANGED <<returned, escaped>>
  /\ UNCHANGED <<call_vars, server_vars, shell, fs, user_query, history_arg, message_history, raw_result,
                 parsed_result, tool_to_call, tool_input, tool_response, model_calls,
                 tool_calls>>

\* The step is looked at as if a START or PLAN step were dispatched like a
\* TOOL step.
Route_plan_dispatched ==
  /\ pc = "route"
  /\ IF parsed_result.form # "dict"
       THEN /\ escaped' = "AttributeError"
            /\ pc' = "raised"
            /\ UNCHANGED returned
     ELSE IF \/ StepIs(parsed_result, <<"T","O","O","L">>)
             \/ StepIs(parsed_result, <<"S","T","A","R","T">>)
             \/ StepIs(parsed_result, <<"P","L","A","N">>)
       THEN /\ pc' = "tool"
            /\ UNCHANGED <<returned, escaped>>
     ELSE IF StepIs(parsed_result, <<"O","U","T","P","U","T">>)
       THEN /\ returned' = Pair(OutputContent(Get(parsed_result.content, PyStr(<<>>))),
                                message_history)
            /\ pc' = "done"
            /\ UNCHANGED escaped
     ELSE /\ pc' = "call"
          /\ UNCHANGED <<returned, escaped>>
  /\ UNCHANGED <<call_vars, server_vars, shell, fs, user_query, history_arg, message_history, raw_result,
                 parsed_result, tool_to_call, tool_input, tool_response, model_calls,
                 tool_calls>>

\* The step is looked at as if a step that is none of the four ended the run
\* like an OUTPUT step.
Route_unknown_returns ==
  /\ pc = "route"
  /\ IF parsed_result.form # "dict"
       THEN /\ escaped' = "AttributeError"
            /\ pc' = "raised"
            /\ UNCHANGED returned
     ELSE IF StepIs(parsed_result, <<"T","O","O","L">>)
       THEN /\ pc' = "tool"
            /\ UNCHANGED <<returned, escaped>>
     ELSE IF StepIs(parsed_result, <<"O","U","T","P","U","T">>)
       THEN /\ returned' = Pair(OutputContent(Get(parsed_result.content, PyStr(<<>>))),
                                message_history)
            /\ pc' = "done"
            /\ UNCHANGED escaped
     ELSE /\ returned' = Pair(OutputContent(Get(parsed_result.content, PyStr(<<>>))),
                              message_history)
          /\ pc' = "done"
          /\ UNCHANGED escaped
  /\ UNCHANGED <<call_vars, server_vars, shell, fs, user_query, history_arg, message_history, raw_result,
                 parsed_result, tool_to_call, tool_input, tool_response, model_calls,
                 tool_calls>>

\* Lines 181-185 and 226-227: the step is looked at.  A value that is no dict
\* has no get(), and nothing catches that.  START and PLAN go on with the next
\* call, and so does a step that is none of the four, for which the body of
\* the while loop ends.
Route ==
  /\ pc = "route"
  /\ IF parsed_result.form # "dict"
       THEN /\ escaped' = "AttributeError"
            /\ pc' = "raised"
            /\ UNCHANGED returned
     ELSE IF StepIs(parsed_result, <<"T","O","O","L">>)
       THEN /\ pc' = "tool"
            /\ UNCHANGED <<returned, escaped>>
     ELSE IF StepIs(parsed_result, <<"O","U","T","P","U","T">>)
       THEN /\ returned' = Pair(OutputContent(Get(parsed_result.content, PyStr(<<>>))),
                                message_history)
            /\ pc' = "done"
            /\ UNCHANGED escaped
     ELSE /\ pc' = "call"
          /\ UNCHANGED <<returned, escaped>>
  /\ UNCHANGED <<call_vars, server_vars, shell, fs, user_query, history_arg, message_history, raw_result,
                 parsed_result, tool_to_call, tool_input, tool_response, model_calls,
                 tool_calls>>

\* The tool is dispatched and the loop goes on without an observation.
Tool_unobserved ==
  /\ pc = "tool"
  /\ tool_to_call' = Get(parsed_result.tool, PyStr(<<>>))
  /\ tool_input' = Get(parsed_result.input, PyStr(<<>>))
  /\ \E code \in ExitCodes :
       \E d \in dispatch(tool_to_call', tool_input', user_query, fs, code) :
          /\ tool_response' = d.response
          /\ fs' = d.fs
          /\ shell' = shell \o d.calls
          /\ tool_calls' = tool_calls + d.invoked
  /\ pc' = "call"
  /\ UNCHANGED <<call_vars, server_vars, user_query, history_arg, message_history, raw_result,
                 parsed_result, returned, escaped, model_calls>>

\* Lines 186-220: the tool and its input are read off the step and the tool is
\* dispatched.
Tool ==
  /\ pc = "tool"
  /\ tool_to_call' = Get(parsed_result.tool, PyStr(<<>>))
  /\ tool_input' = Get(parsed_result.input, PyStr(<<>>))
  /\ \E code \in ExitCodes :
       \E d \in dispatch(tool_to_call', tool_input', user_query, fs, code) :
          /\ tool_response' = d.response
          /\ fs' = d.fs
          /\ shell' = shell \o d.calls
          /\ tool_calls' = tool_calls + d.invoked
  /\ pc' = "observe"
  /\ UNCHANGED <<call_vars, server_vars, user_query, history_arg, message_history, raw_result,
                 parsed_result, returned, escaped, model_calls>>

\* The observation is put in the place of the last message.
Observe_in_place ==
  /\ pc = "observe"
  /\ message_history' =
       [message_history EXCEPT ![Len(message_history)] =
          Observation(tool_to_call, tool_input, tool_response)]
  /\ pc' = "call"
  /\ UNCHANGED <<call_vars, server_vars, shell, fs, user_query, history_arg, raw_result, parsed_result,
                 tool_to_call, tool_input, tool_response, returned, escaped, model_calls,
                 tool_calls>>

\* Lines 222-225: the observation is appended and the loop goes on.
Observe ==
  /\ pc = "observe"
  /\ message_history' =
       Append(message_history, Observation(tool_to_call, tool_input, tool_response))
  /\ pc' = "call"
  /\ UNCHANGED <<call_vars, server_vars, shell, fs, user_query, history_arg, raw_result, parsed_result,
                 tool_to_call, tool_input, tool_response, returned, escaped, model_calls,
                 tool_calls>>

Next == Start \/ ModelCall \/ Parse \/ Route \/ Tool \/ Observe

Spec == Init /\ [][Next]_vars

\* The dispatch of a TOOL step comes back: the tool function that was called
\* returns or raises, and the loop is at the observation.
ToolReturns == pc = "tool" /\ pc' = "observe"

\* run_assistant is called with a query and no history.
InitFair == Init /\ history_arg = NoHistory /\ user_query = PyStr(<<"m","a","k","e"," ","a"," ","t","o","d","o"," ","a","p","p">>)

\* run_assistant runs on: the interpreter takes the next step of the function
\* whenever there is one.  Whether a request fails and what the model
\* answers stays open.
FairSpec ==
  /\ InitFair
  /\ [][Next]_vars
  /\ WF_vars(Start)
  /\ WF_vars(ModelCall)
  /\ WF_vars(Parse)
  /\ WF_vars(Route)
  /\ WF_pc(ToolReturns)
  /\ WF_vars(Observe)

\* ------------------------------- run_assistant, called by two requests

\* The requests that are handled at the same time (server.py line 53,
\* mcp_server.py line 301): each calls run_assistant without a history.
Invocations == {1, 2}

\* The queries of the two requests.
QueryOf(i) == IF i = 1 THEN PyStr(<<"m","a","k","e"," ","a"," ","t","o","d","o"," ","a","p","p">>) ELSE PyStr(<<"r","e","a","d"," ","m","y"," ","n","o","t","e","s">>)

\* What the model answers to an invocation: a PLAN step, a TOOL step and an
\* OUTPUT step.  The first request has a file created that the second one
\* reads, so the result of a tool depends on what the other invocation did.
ResponsesTo(i) ==
  IF i = 1
    THEN { JsonObject(PyStr(<<"P","L","A","N">>), PyStr(<<"p","l","a","n"," ","1">>), Absent, Absent),
           ToolStep(PyStr(<<"c","r","e","a","t","e","_","f","i","l","e">>), PyStr(<<"n","o","t","e","s",".","t","x","t","NL","x">>)),
           JsonObject(PyStr(<<"O","U","T","P","U","T">>), PyStr(<<"d","o","n","e"," ","1">>), Absent, Absent) }
  ELSE { JsonObject(PyStr(<<"P","L","A","N">>), PyStr(<<"p","l","a","n"," ","2">>), Absent, Absent),
         ToolStep(PyStr(<<"r","e","a","d","_","f","i","l","e">>), PyStr(<<"n","o","t","e","s",".","t","x","t">>)),
         JsonObject(PyStr(<<"O","U","T","P","U","T">>), PyStr(<<"d","o","n","e"," ","2">>), Absent, Absent) }

\* The locals of an invocation of run_assistant at line 152.
Invocation(query) ==
  [user_query |-> query, history_arg |-> NoHistory, pc |-> "entry",
   message_history |-> <<>>, raw_result |-> NoResponse, parsed_result |-> NoResponse,
   tool_to_call |-> Absent, tool_input |-> Absent, tool_response |-> NoCall,
   returned |-> NoReturn, escaped |-> "", model_calls |-> 0]

\* Two requests have come in and each handler has called run_assistant.
InitPair ==
  /\ tool_pc = "idle"
  /\ tool_name = "none"
  /\ tool_arg = Absent
  /\ tool_content = Absent
  /\ tool_out = NoCall
  /\ read_back = NoCall
  /\ shell = <<>>
  /\ fs \in {PlainFs, ProjectFs}
  /\ user_query = PyStr(<<>>)
  /\ LoopIdle
  /\ ServerIdle
  /\ runs = [i \in Invocations |-> Invocation(QueryOf(i))]

\* A step of invocation i that touches its locals alone.
Local(i, run) ==
  /\ runs' = [runs EXCEPT ![i] = run]
  /\ UNCHANGED <<call_vars, loop_vars, request, server_initialized, core_key, reply,
                 client_capabilities, rpc, children, shell, fs,
                 user_query>>

\* The history is seeded from one list that the invocations share, as with a
\* list made once at module level or as default value of the parameter.
PairStart_shared(i) ==
  /\ runs[i].pc = "entry"
  /\ \E j \in Invocations \ {i} :
       Local(i, [runs[i] EXCEPT
                   !.message_history =
                      (IF runs[j].pc = "entry" THEN <<SystemMessage>>
                       ELSE runs[j].message_history) \o <<UserMessage(runs[i].user_query)>>,
                   !.pc = "call"])

\* Lines 152-157 in invocation i.
PairStart(i) ==
  /\ runs[i].pc = "entry"
  /\ Local(i, [runs[i] EXCEPT
                 !.message_history = InitialHistory(runs[i].history_arg, runs[i].user_query),
                 !.pc = "call"])

\* Lines 161-173 and 178-179 in invocation i.
PairModelCall(i) ==
  /\ runs[i].pc = "call"
  /\ runs[i].model_calls < MaxCalls
  /\ \/ Local(i, [runs[i] EXCEPT !.model_calls = @ + 1,
                                  !.returned = FailedCall(runs[i].message_history),
                                  !.pc = "done"])
     \/ \E r \in ResponsesTo(i) :
          Local(i, [runs[i] EXCEPT !.model_calls = @ + 1,
                                   !.raw_result = r,
                                   !.message_history = Append(@, AssistantMessage(r)),
                                   !.pc = "parse"])

\* What lines 174-179 make of the locals run.
Parsed(run, decoded) ==
  IF decoded.exc = "JSONDecodeError"
    THEN [run EXCEPT !.returned = Pair(ParseError(decoded.exc, run.raw_result),
                                       run.message_history),
                     !.pc = "done"]
  ELSE IF decoded.exc # ""
    THEN [run EXCEPT !.returned = Pair(ApiError(decoded.exc), run.message_history),
                     !.pc = "done"]
  ELSE [run EXCEPT !.parsed_result = decoded.value, !.pc = "route"]

\* Lines 174-179 in invocation i.
PairParse(i) ==
  /\ runs[i].pc = "parse"
  /\ Local(i, Parsed(runs[i], json_loads(runs[i].raw_result)))

\* What lines 181-185 and 226-227 make of the locals run.
Routed(run) ==
  IF run.parsed_result.form # "dict"
    THEN [run EXCEPT !.escaped = "AttributeError", !.pc = "raised"]
  ELSE IF StepIs(run.parsed_result, <<"T","O","O","L">>) THEN [run EXCEPT !.pc = "tool"]
  ELSE IF StepIs(run.parsed_result, <<"O","U","T","P","U","T">>)
    THEN [run EXCEPT !.returned = Pair(OutputContent(Get(run.parsed_result.content,
                                                         PyStr(<<>>))),
                                       run.message_history),
                     !.pc = "done"]
  ELSE [run EXCEPT !.pc = "call"]

\* Lines 181-185 and 226-227 in invocation i.
PairRoute(i) ==
  /\ runs[i].pc = "route"
  /\ Local(i, Routed(runs[i]))

\* Lines 186-220 in invocation i: the tool acts on the file system and the
\* shell that the invocations share.
PairTool(i) ==
  /\ runs[i].pc = "tool"
  /\ \E code \in ExitCodes :
       \E d \in dispatch(Get(runs[i].parsed_result.tool, PyStr(<<>>)),
                         Get(runs[i].parsed_result.input, PyStr(<<>>)),
                         runs[i].user_query, fs, code) :
          /\ runs' = [runs EXCEPT
                        ![i].tool_to_call = Get(runs[i].parsed_result.tool, PyStr(<<>>)),
                        ![i].tool_input = Get(runs[i].parsed_result.input, PyStr(<<>>)),
                        ![i].tool_response = d.response,
                        ![i].pc = "observe"]
          /\ fs' = d.fs
          /\ shell' = shell \o d.calls
  /\ UNCHANGED <<call_vars, loop_vars, request, server_initialized, core_key, reply,
                 client_capabilities, rpc, children,
                 user_query>>

\* Lines 222-225 in invocation i.
PairObserve(i) ==
  /\ runs[i].pc = "observe"
  /\ Local(i, [runs[i] EXCEPT
                 !.message_history =
                    Append(@, Observation(runs[i].tool_to_call, runs[i].tool_input,
                                          runs[i].tool_response)),
                 !.pc = "call"])

\* The interpreter runs a step of one of the invocations.
NextPair ==
  \E i \in Invocations :
     \/ PairStart(i)
     \/ PairModelCall(i)
     \/ PairParse(i)
     \/ PairRoute(i)
     \/ PairTool(i)
     \/ PairObserve(i)

SpecPair == InitPair /\ [][NextPair]_vars

\* ------------------------------------------- the handlers that ask the core

\* An API key of the OpenAI shape with n characters after "sk-".
Key(n) == <<"s","k","-">> \o [i \in 1..n |-> "x"]

Spaces(n) == [i \in 1..n |-> " "]

\* The api_key values of the requests: of the right shape, too short, with
\* another prefix, empty, blank, padded, and, where the JSON body is not
\* validated, values that are no str.
ApiKeys ==
  {PyStr(Key(37)), PyStr(Key(36)), PyStr([i \in 1..40 |-> "x"]), PyStr(<<"S","K","-">> \o Key(37)),
   PyStr(<<>>), PyStr(Spaces(2)), PyStr(Spaces(2) \o Key(37) \o Spaces(1)),
   PyStr(Key(30) \o Spaces(7))}

RpcKeys == ApiKeys \cup {Absent, PyNone, PyInt(123), PyList(1)}

\* POST /api/ask with a body that MCPRequest accepts (server.py lines 20-24):
\* user_input and api_key are str.
AskRequest(api_key) ==
  [endpoint |-> "api_ask", api_key |-> api_key, user_input |-> PyStr(<<"m","a","k","e"," ","a"," ","t","o","d","o"," ","a","p","p">>)]

\* POST /mcp/rpc with method assistant/ask and the params given.
RpcRequest(api_key, user_input) ==
  [endpoint |-> "mcp_rpc", api_key |-> api_key, user_input |-> user_input]

Requests ==
  {AskRequest(k) : k \in ApiKeys}
    \cup {RpcRequest(k, PyStr(<<"m","a","k","e"," ","a"," ","t","o","d","o"," ","a","p","p">>)) : k \in RpcKeys}
    \cup {RpcRequest(PyStr(Key(37)), u) : u \in {Absent, PyStr(<<>>)}}

\* A request has reached its handler.
InitAsk ==
  /\ tool_pc = "idle"
  /\ tool_name = "none"
  /\ tool_arg = Absent
  /\ tool_content = Absent
  /\ tool_out = NoCall
  /\ read_back = NoCall
  /\ shell = <<>>
  /\ fs = PlainFs
  /\ user_query = PyStr(<<>>)
  /\ LoopIdle
  /\ runs = <<>>
  /\ request \in Requests
  /\ server_initialized \in (IF request.endpoint = "mcp_rpc" THEN BOOLEAN ELSE {FALSE})
  /\ core_key = Absent
  /\ reply = NoReply
  /\ client_capabilities = NoCapabilities
  /\ rpc = <<>>
  /\ children = NoChildren

\* The shape check without the test of the length.
KeyShape_prefix_only(api_key) == StartsWith(api_key, <<"s","k","-">>)

\* api_key.startswith("sk-") and len(api_key) >= 40 (server.py line 51,
\* mcp_server.py line 298), for a str.
KeyShape(api_key) == StartsWith(api_key, <<"s","k","-">>) /\ Len(api_key) >= 40

\* The handler returns without calling run_assistant.
Rejected(r) ==
  /\ reply' = r
  /\ UNCHANGED <<call_vars, loop_vars, runs, request, server_initialized, core_key,
                 client_capabilities, rpc, children, shell, fs,
                 user_query>>

\* The handler calls run_assistant(user_input, api_key=api_key): the call is
\* at line 152 of assistant_core.py.
CallCore(user_input, api_key) ==
  /\ core_key' = api_key
  /\ user_query' = user_input
  /\ pc' = "entry"
  /\ UNCHANGED <<call_vars, history_arg, message_history, raw_result, parsed_result,
                 tool_to_call, tool_input, tool_response, returned, escaped, model_calls,
                 tool_calls, runs, request, server_initialized, reply,
                 client_capabilities, rpc, children, shell, fs>>

\* server.py lines 48-53: the key is stripped and checked, and the core is
\* called with the stripped key.
ApiAsk ==
  /\ request.endpoint = "api_ask"
  /\ pc = "idle"
  /\ reply = NoReply
  /\ IF ~Truthy(PyStr(Strip(request.api_key.s)))
       THEN Rejected(Reply("response", 200, "Error: API key is required in the request.",
                           Absent))
     ELSE IF ~KeyShape(Strip(request.api_key.s))
       THEN Rejected(Reply("response", 200, "Error: Invalid API key format.", Absent))
     ELSE CallCore(request.user_input, PyStr(Strip(request.api_key.s)))

\* mcp_server.py lines 203-204 and 285-301: assistant/ask.  The key is
\* checked as given; a key that is true and no str has no startswith(), which
\* the except clause of line 308 turns into an error response.
McpAsk ==
  /\ request.endpoint = "mcp_rpc"
  /\ pc = "idle"
  /\ reply = NoReply
  /\ IF ~server_initialized
       THEN Rejected(Reply("error", -32603, "Server not initialized", Absent))
     ELSE IF ~Truthy(Get(request.user_input, PyStr(<<>>)))
       THEN Rejected(Reply("error", -32602, "user_input is required", Absent))
     ELSE IF ~Truthy(Get(request.api_key, PyStr(<<>>)))
       THEN Rejected(Reply("error", -32602, "api_key is required", Absent))
     ELSE IF ~IsStr(request.api_key)
       THEN Rejected(Reply("error", -32603, "Internal error", Absent))
     ELSE IF ~KeyShape(request.api_key.s)
       THEN Rejected(Reply("error", -32602, "Invalid API key format", Absent))
     ELSE CallCore(request.user_input, request.api_key)

\* server.py lines 53-54 and mcp_server.py lines 301-306: run_assistant has
\* returned.  MCPResponse takes a str as response only; the JSON-RPC result
\* takes any value.
AskReturn ==
  /\ request # NoRequest
  /\ pc = "done"
  /\ reply = NoReply
  /\ reply' =
       IF request.endpoint = "mcp_rpc" THEN Reply("result", 0, "", returned.first)
       ELSE IF returned.first.ty = "str" THEN Reply("response", 200, "", returned.first)
       ELSE Reply("unhandled", 500, "ValidationError", Absent)
  /\ UNCHANGED <<call_vars, loop_vars, runs, request, server_initialized, core_key,
                 client_capabilities, rpc, children, shell, fs,
                 user_query>>

\* An exception has left run_assistant: api_ask does not catch it, the
\* except clause of mcp_server.py line 308 does.
AskRaised ==
  /\ request # NoRequest
  /\ pc = "raised"
  /\ reply = NoReply
  /\ reply' =
       IF request.endpoint = "mcp_rpc" THEN Reply("error", -32603, "Internal error", Absent)
       ELSE Reply("unhandled", 500, escaped, Absent)
  /\ UNCHANGED <<call_vars, loop_vars, runs, request, server_initialized, core_key,
                 client_capabilities, rpc, children, shell, fs,
                 user_query>>

NextAsk == ApiAsk \/ McpAsk \/ Next \/ AskReturn \/ AskRaised

SpecAsk == InitAsk /\ [][NextAsk]_vars

\* ------------------------------------- runs on TOOL steps of many inputs

\* Responses whose TOOL steps have inputs of one line and of several, with
\* and without blanks around the path.
InputSteps ==
  { JsonObject(PyStr(<<"P","L","A","N">>), PyStr(<<"p","l","a","n">>), Absent, Absent),
    JsonObject(PyStr(<<"O","U","T","P","U","T">>), PyStr(<<"d","o","n","e">>), Absent, Absent),
    ToolStep(PyStr(<<"c","r","e","a","t","e","_","f","i","l","e">>), PyStr(<<" ","t","o","d","o",".","p","y"," ","NL","t","a","s","k","s"," ","="," ","[","]","NL","NL","p","r","i","n","t","(","t","a","s","k","s",")","NL">>)),
    ToolStep(PyStr(<<"c","r","e","a","t","e","_","f","i","l","e">>), PyStr(<<"n","o","t","e","s",".","t","x","t">>)),
    ToolStep(PyStr(<<"c","r","e","a","t","e","_","f","i","l","e">>), PyStr(<<"NL","n","o","t","e","s",".","t","x","t","NL","x">>)),
    ToolStep(PyStr(<<"w","r","i","t","e","_","f","i","l","e">>), PyStr(<<"m","a","i","n",".","p","y">>)),
    ToolStep(PyStr(<<"w","r","i","t","e","_","f","i","l","e">>), PyStr(<<"m","a","i","n",".","p","y"," ","NL","NL","i","m","p","o","r","t"," ","o","s","NL">>)),
    ToolStep(PyStr(<<"r","e","a","d","_","f","i","l","e">>), PyStr(<<"m","a","i","n",".","p","y">>)),
    ToolStep(PyStr(<<"r","e","a","d","_","f","i","l","e">>), PyStr(<<" ","m","a","i","n",".","p","y">>)),
    ToolStep(PyStr(<<"a","n","a","l","y","z","e","_","c","o","d","e">>), PyStr(<<"m","a","i","n",".","p","y","NL">>)),
    ToolStep(PyStr(<<"r","u","n","_","c","o","m","m","a","n","d">>), PyStr(<<" ","g","i","t"," ","l","o","g","NL">>)) }

\* Lines 161-173 and 178-179: the model is called and answers with one of
\* the steps above, or the request fails.
StepCall ==
  /\ pc = "call"
  /\ model_calls < MaxCalls
  /\ model_calls' = model_calls + 1
  /\ \/ /\ returned' = FailedCall(message_history)
        /\ pc' = "done"
        /\ UNCHANGED <<message_history, raw_result>>
     \/ \E r \in InputSteps :
          /\ raw_result' = r
          /\ message_history' = Append(message_history, AssistantMessage(r))
          /\ pc' = "parse"
          /\ UNCHANGED returned
  /\ UNCHANGED <<call_vars, server_vars, shell, fs, user_query, history_arg, parsed_result, tool_to_call,
                 tool_input, tool_response, escaped, tool_calls>>

NextInput == Start \/ StepCall \/ Parse \/ Route \/ Tool \/ Observe

SpecInput == Init /\ [][NextInput]_vars

\* ------------------------------------------- main.py, the interactive loop

\* The queries typed or spoken, and the responses of the model that are
\* tried.
MainQueries == {PyStr(<<"m","a","k","e"," ","a"," ","t","o","d","o"," ","a","p","p">>), PyStr(<<"r","e","a","d"," ","m","a","i","n",".","p","y">>)}

MainResponses ==
  { NoContent, Undecodable, JsonArray,
    JsonObject(PyStr(<<"P","L","A","N">>), PyStr(<<"p","l","a","n">>), Absent, Absent),
    JsonObject(PyStr(<<"T","H","I","N","K">>), PyStr(<<"h","m">>), Absent, Absent),
    JsonObject(PyStr(<<"O","U","T","P","U","T">>), PyStr(<<"d","o","n","e">>), Absent, Absent),
    ToolStep(PyStr(<<"r","e","a","d","_","f","i","l","e">>), PyStr(<<"m","a","i","n",".","p","y">>)),
    ToolStep(PyStr(<<"c","r","e","a","t","e","_","f","i","l","e">>), PyStr(<<"t","o","d","o",".","p","y","NL","t","a","s","k","s"," ","="," ","[","]">>)) }

\* Lines 26-28: the module starts with the system message as its history and
\* waits for the first query.
InitMain ==
  /\ tool_pc = "idle"
  /\ tool_name = "none"
  /\ tool_arg = Absent
  /\ tool_content = Absent
  /\ tool_out = NoCall
  /\ read_back = NoCall
  /\ shell = <<>>
  /\ fs = PlainFs
  /\ user_query = Absent
  /\ history_arg = NoHistory
  /\ pc = "main_input"
  /\ message_history = <<SystemMessage>>
  /\ raw_result = NoResponse
  /\ parsed_result = NoResponse
  /\ tool_to_call = Absent
  /\ tool_input = Absent
  /\ tool_response = NoCall
  /\ returned = NoReturn
  /\ escaped = ""
  /\ model_calls = 0
  /\ tool_calls = 0
  /\ runs = <<>>
  /\ ServerIdle

\* Lines 67-79: a query is read and appended to the history of the module.
MainInput ==
  /\ pc = "main_input"
  /\ model_calls < MaxCalls
  /\ \E q \in MainQueries :
       /\ user_query' = q
       /\ message_history' = Append(message_history, UserMessage(q))
  /\ pc' = "main_call"
  /\ UNCHANGED <<call_vars, server_vars, shell, fs, history_arg, raw_result, parsed_result,
                 tool_to_call, tool_input, tool_response, returned, escaped, model_calls,
                 tool_calls>>

\* Lines 82-96 and 106-108: the model is called.  When the request fails the
\* error is printed and the inner loop continues with the next request;
\* otherwise the content is appended as an assistant message.
MainCall ==
  /\ pc = "main_call"
  /\ model_calls < MaxCalls
  /\ model_calls' = model_calls + 1
  /\ \/ /\ pc' = "main_call"
        /\ UNCHANGED <<message_history, raw_result>>
     \/ \E r \in MainResponses :
          /\ raw_result' = r
          /\ message_history' = Append(message_history, AssistantMessage(r))
          /\ pc' = "main_parse"
  /\ UNCHANGED <<call_vars, server_vars, shell, fs, user_query, history_arg, parsed_result,
                 tool_to_call, tool_input, tool_response, returned, escaped, tool_calls>>

\* Lines 99-108: the content is decoded.  For JSONDecodeError (line 102) and
\* for any other exception (line 106) the error is printed and the inner loop
\* continues with the next request.
MainParse ==
  /\ pc = "main_parse"
  /\ IF json_loads(raw_result).exc # ""
       THEN /\ pc' = "main_call"
            /\ UNCHANGED parsed_result
     ELSE /\ parsed_result' = json_loads(raw_result).value
          /\ pc' = "main_route"
  /\ UNCHANGED <<call_vars, server_vars, shell, fs, user_query, history_arg, message_history,
                 raw_result, tool_to_call, tool_input, tool_response, returned, escaped,
                 model_calls, tool_calls>>

\* Lines 110-112, 114, 171-178: the step is looked at.  A value that is no
\* dict has no get(): the exception leaves the module.  OUTPUT breaks out of
\* the inner loop to the next query, TOOL is dispatched, every other step
\* continues with the next request.
MainRoute ==
  /\ pc = "main_route"
  /\ IF parsed_result.form # "dict"
       THEN /\ escaped' = "AttributeError"
            /\ pc' = "main_crashed"
     ELSE IF StepIs(parsed_result, <<"T","O","O","L">>)
       THEN /\ pc' = "main_tool"
            /\ UNCHANGED escaped
     ELSE IF StepIs(parsed_result, <<"O","U","T","P","U","T">>)
       THEN /\ pc' = "main_input"
            /\ UNCHANGED escaped
     ELSE /\ pc' = "main_call"
          /\ UNCHANGED escaped
  /\ UNCHANGED <<call_vars, server_vars, shell, fs, user_query, history_arg, message_history,
                 raw_result, parsed_result, tool_to_call, tool_input, tool_response, returned,
                 model_calls, tool_calls>>

\* Lines 115-163: the tool is dispatched as in run_assistant, create_file
\* without the query of the user.
MainTool ==
  /\ pc = "main_tool"
  /\ tool_to_call' = Get(parsed_result.tool, PyStr(<<>>))
  /\ tool_input' = Get(parsed_result.input, PyStr(<<>>))
  /\ \E code \in ExitCodes :
       \E d \in dispatch(tool_to_call', tool_input', PyStr(<<>>), fs, code) :
          /\ tool_response' = d.response
          /\ fs' = d.fs
          /\ shell' = shell \o d.calls
          /\ tool_calls' = tool_calls + d.invoked
  /\ pc' = "main_observe"
  /\ UNCHANGED <<call_vars, server_vars, user_query, history_arg, message_history, raw_result,
                 parsed_result, returned, escaped, model_calls>>

\* Lines 165-169: the observation is appended and the inner loop continues.
MainObserve ==
  /\ pc = "main_observe"
  /\ message_history' =
       Append(message_history, Observation(tool_to_call, tool_input, tool_response))
  /\ pc' = "main_call"
  /\ UNCHANGED <<call_vars, server_vars, shell, fs, user_query, history_arg, raw_result,
                 parsed_result, tool_to_call, tool_input, tool_response, returned, escaped,
                 model_calls, tool_calls>>

NextMain == MainInput \/ MainCall \/ MainParse \/ MainRoute \/ MainTool \/ MainObserve

SpecMain == InitMain /\ [][NextMain]_vars
\* ------------------------------------------ mcp_server.py: POST /mcp/rpc

\* The number of requests one server process is sent.
MaxRequests == 2

\* The arguments of a tools/call request, a JSON object: the keys it holds.
Arguments(api_key, file_path, content, cmd) ==
  [given |-> TRUE, api_key |-> api_key, file_path |-> file_path, content |-> content,
   cmd |-> cmd]

\* params without the key "arguments".
NoArguments ==
  [given |-> FALSE, api_key |-> Absent, file_path |-> Absent, content |-> Absent,
   cmd |-> Absent]

\* A body that JsonRpcRequest accepts (lines 17-21), with the params of the
\* three methods that read them.  capabilities is the name of a JSON object,
\* or Absent where params does not hold the key.
RpcCall(method, name, arguments, user_input, api_key, capabilities) ==
  [method |-> method, name |-> name, arguments |-> arguments, user_input |-> user_input,
   api_key |-> api_key, capabilities |-> capabilities]

Initialize(capabilities) ==
  RpcCall("initialize", Absent, NoArguments, Absent, Absent, capabilities)

Plain(method) == RpcCall(method, Absent, NoArguments, Absent, Absent, Absent)

ToolsCall(name, arguments) ==
  RpcCall("tools/call", PyStr(name), arguments, Absent, Absent, Absent)

AssistantAsk(user_input, api_key) ==
  RpcCall("assistant/ask", Absent, NoArguments, user_input, api_key, Absent)

PlainMethods ==
  {"notifications/initialized", "ping", "tools/list", "resources/list", "tools/remove"}

\* The requests of the clients: initialize with two sets of capabilities and
\* without any, the methods without params, tools/call with and without a
\* key of the right shape for tools of the registry and for another name,
\* and assistant/ask with and without a key.
RpcCalls ==
  {Initialize(PyDict(<<"r","o","o","t","s">>)), Initialize(PyDict(<<"s","a","m","p","l","i","n","g">>)), Initialize(Absent)}
    \cup {Plain(method) : method \in PlainMethods}
    \cup {ToolsCall(<<"r","e","a","d","_","f","i","l","e">>, Arguments(PyStr(Key(37)), PyStr(<<"m","a","i","n",".","p","y">>), Absent, Absent)),
          ToolsCall(<<"r","e","a","d","_","f","i","l","e">>, Arguments(Absent, PyStr(<<"m","a","i","n",".","p","y">>), Absent, Absent)),
          ToolsCall(<<"r","e","a","d","_","f","i","l","e">>, Arguments(PyStr(Key(36)), PyStr(<<"m","a","i","n",".","p","y">>), Absent, Absent)),
          ToolsCall(<<"r","e","a","d","_","f","i","l","e">>, Arguments(PyInt(123), PyStr(<<"m","a","i","n",".","p","y">>), Absent, Absent)),
          ToolsCall(<<"r","e","a","d","_","f","i","l","e">>, Arguments(PyStr(Key(37)), PyStr(<<"n","o","p","e",".","t","x","t">>), Absent, Absent)),
          ToolsCall(<<"r","e","a","d","_","f","i","l","e">>, Arguments(PyStr(Key(37)), Absent, Absent, Absent)),
          ToolsCall(<<"r","e","a","d","_","f","i","l","e">>, NoArguments),
          ToolsCall(<<"d","e","l","e","t","e","_","f","i","l","e">>, Arguments(PyStr(Key(37)), PyStr(<<"m","a","i","n",".","p","y">>), Absent, Absent)),
          ToolsCall(<<"d","e","l","e","t","e","_","f","i","l","e">>, Arguments(Absent, PyStr(<<"m","a","i","n",".","p","y">>), Absent, Absent)),
          ToolsCall(<<"d","e","l","e","t","e","_","f","i","l","e">>, Arguments(PyStr(Key(36)), PyStr(<<"m","a","i","n",".","p","y">>), Absent, Absent)),
          ToolsCall(<<"c","r","e","a","t","e","_","f","i","l","e">>,
                    Arguments(PyStr(Key(37)), PyStr(<<"t","o","d","o",".","p","y">>), PyStr(<<"t","a","s","k","s"," ","="," ","[","]">>), Absent)),
          ToolsCall(<<"r","u","n","_","c","o","m","m","a","n","d">>, Arguments(PyStr(Key(37)), Absent, Absent, PyStr(<<"g","i","t"," ","l","o","g">>))),
          ToolsCall(<<"r","u","n","_","c","o","m","m","a","n","d">>, Arguments(PyStr(Key(37)), Absent, Absent, PyStr(<<"r","m"," ","-","r","f"," ","/">>))),
          ToolsCall(<<"r","u","n","_","c","o","m","m","a","n","d">>, Arguments(PyStr(Key(37)), Absent, Absent, PyInt(123)))}
    \cup {AssistantAsk(PyStr(<<"m","a","k","e"," ","a"," ","t","o","d","o"," ","a","p","p">>), k) : k \in {PyStr(Key(37)), PyStr(Key(36)), Absent}}

\* A request of the server: the body, how far its handler is ("received":
\* the body is read and parsed, lines 168-169; "asking": run_assistant is
\* running; "answered": the handler has returned) and what it returned.
RpcEntry(call, stage, answer) == [call |-> call, stage |-> stage, reply |-> answer]

\* The server process has started and no request has come.
InitRpc ==
  /\ tool_pc = "idle"
  /\ tool_name = "none"
  /\ tool_arg = Absent
  /\ tool_content = Absent
  /\ tool_out = NoCall
  /\ read_back = NoCall
  /\ shell = <<>>
  /\ fs = PlainFs
  /\ user_query = PyStr(<<>>)
  /\ LoopIdle
  /\ runs = <<>>
  /\ ServerIdle

\* Lines 168-175: the body of one more request is read and parsed.  The
\* handler waits for the body only; from here on it runs without a break.
RpcReceive ==
  /\ pc = "idle"
  /\ Len(rpc) < MaxRequests
  /\ \E call \in RpcCalls : rpc' = Append(rpc, RpcEntry(call, "received", NoReply))
  /\ UNCHANGED <<children, call_vars, loop_vars, runs, request, server_initialized, core_key, reply,
                 client_capabilities, shell, fs, user_query>>

\* The handler of request i is about to run for one of the methods.
Handling(i, methods) ==
  /\ pc = "idle"
  /\ i \in DOMAIN rpc
  /\ rpc[i].stage = "received"
  /\ rpc[i].call.method \in methods

\* The handler of request i returns r.
Answered(i, r) == rpc' = [rpc EXCEPT ![i] = RpcEntry(rpc[i].call, "answered", r)]

\* The handler of request i returns r and has changed nothing.
Refused(i, r) ==
  /\ Answered(i, r)
  /\ UNCHANGED <<children, call_vars, loop_vars, runs, request, server_initialized, core_key, reply,
                 client_capabilities, shell, fs, user_query>>

\* Lines 210-211.
NotInitialized == Reply("error", -32603, "Server not initialized", Absent)

\* Lines 48-51: InitializeParams(**params) raises unless protocolVersion,
\* capabilities and clientInfo are there.
InitializeParams(call) == call.capabilities # Absent

\* An initialize that does not look at server_initialized.
RpcInitialize_again(i) ==
  /\ Handling(i, {"initialize"})
  /\ IF ~InitializeParams(rpc[i].call)
       THEN Refused(i, Reply("error", -32602, "Invalid params", Absent))
     ELSE /\ client_capabilities' = rpc[i].call.capabilities
          /\ server_initialized' = TRUE
          /\ Answered(i, Reply("result", 0, "", PyStr(<<"2","0","2","4","-","1","1","-","0","5">>)))
          /\ UNCHANGED <<children, call_vars, loop_vars, runs, request, core_key, reply, shell, fs,
                         user_query>>

\* An initialize that sets the flag before it validates the params.
RpcInitialize_flag_first(i) ==
  /\ Handling(i, {"initialize"})
  /\ IF server_initialized
       THEN Refused(i, Reply("error", -32603, "Server already initialized", Absent))
     ELSE /\ server_initialized' = TRUE
          /\ client_capabilities' =
               IF InitializeParams(rpc[i].call) THEN rpc[i].call.capabilities
               ELSE client_capabilities
          /\ Answered(i, IF InitializeParams(rpc[i].call)
                           THEN Reply("result", 0, "", PyStr(<<"2","0","2","4","-","1","1","-","0","5">>))
                         ELSE Reply("error", -32602, "Invalid params", Absent))
          /\ UNCHANGED <<children, call_vars, loop_vars, runs, request, core_key, reply, shell, fs,
                         user_query>>

\* Lines 179-207: initialize.
RpcInitialize(i) ==
  /\ Handling(i, {"initialize"})
  /\ IF server_initialized
       THEN Refused(i, Reply("error", -32603, "Server already initialized", Absent))
     ELSE IF ~InitializeParams(rpc[i].call)
       THEN Refused(i, Reply("error", -32602, "Invalid params", Absent))
     ELSE /\ client_capabilities' = rpc[i].call.capabilities
          /\ server_initialized' = TRUE
          /\ Answered(i, Reply("result", 0, "", PyStr(<<"2","0","2","4","-","1","1","-","0","5">>)))
          /\ UNCHANGED <<children, call_vars, loop_vars, runs, request, core_key, reply, shell, fs,
                         user_query>>

\* Lines 214-225, 280-282 and 312: what the methods without params return.
\* notifications/initialized returns None.
PlainReply(method) ==
  CASE method = "notifications/initialized" -> Reply("null", 0, "", Absent)
    [] method = "ping" -> Reply("result", 0, "", PyStr(<<"{","}">>))
    [] method = "tools/list" -> Reply("result", 0, "", PyStr(<<"t","o","o","l","s">>))
    [] method = "resources/list" -> Reply("result", 0, "", PyStr(<<"r","e","s","o","u","r","c","e","s">>))
    [] OTHER -> Reply("error", -32601, "Method not found", Absent)

\* The methods without params, with ping answered before the test of
\* server_initialized.
RpcPlain_ping_first(i) ==
  /\ Handling(i, PlainMethods)
  /\ IF ~server_initialized /\ rpc[i].call.method # "ping"
       THEN Refused(i, NotInitialized)
     ELSE Refused(i, PlainReply(rpc[i].call.method))

\* Lines 210-225, 280-282 and 312: the methods without params.
RpcPlain(i) ==
  /\ Handling(i, PlainMethods)
  /\ IF ~server_initialized
       THEN Refused(i, NotInitialized)
     ELSE Refused(i, PlainReply(rpc[i].call.method))

\* a or b
OrElse(a, b) == IF Truthy(a) THEN a ELSE b

\* The value tool_args_clean.get(key) gives: None for a key not held.
GetOrNone(held) == Get(held, PyNone)

\* What the call of a tool function came to: what it returned or raised, the
\* file system it left, the commands handed to os.system and the arguments
\* it was called with.
ToolCalled(ret, disk, calls, arg, content) ==
  [ret |-> ret, fs |-> disk, calls |-> calls, arg |-> arg, content |-> content]

\* Lines 249-257: the tool function is called with the arguments that are
\* left once api_key is removed (line 242).
CallTool(name, arguments, disk, code) ==
  IF name \in {<<"c","r","e","a","t","e","_","f","i","l","e">>, <<"w","r","i","t","e","_","f","i","l","e">>}
    THEN LET file_path == Get(arguments.file_path, PyStr(<<>>))
             content   == Get(arguments.content, PyStr(<<>>))
         IN  {ToolCalled(r.ret, r.fs, <<>>, file_path, content) :
                r \in IF name = <<"c","r","e","a","t","e","_","f","i","l","e">>
                      THEN create_file(file_path, content, PyStr(<<>>), disk)
                      ELSE write_file(file_path, content, disk)}
  ELSE LET arg_value == OrElse(OrElse(GetOrNone(arguments.file_path),
                                      GetOrNone(arguments.cmd)), PyStr(<<>>))
       IN  IF name = <<"r","u","n","_","c","o","m","m","a","n","d">>
             THEN {ToolCalled(r.ret, disk, r.calls, arg_value, Absent) :
                     r \in {run_command(arg_value,
                                        IF IsStr(arg_value) THEN os_system(arg_value.s, code)
                                        ELSE NotRun)}}
           ELSE {ToolCalled(r.ret, r.fs, <<>>, arg_value, Absent) :
                   r \in IF name = <<"r","e","a","d","_","f","i","l","e">> THEN read_file(arg_value, disk)
                         ELSE analyze_code(arg_value, disk)}

\* Lines 259-274: the result of tools/call, the text and isError.
ToolResult(isError, text) == [ty |-> "tool result", isError |-> isError, text |-> text]

\* Lines 248-274: the tool function is called; what it returns is the text
\* of a result with isError False, an exception the text of one with
\* isError True.
ToolRan(i, name, arguments) ==
  \E code \in ExitCodes : \E c \in CallTool(name, arguments, fs, code) :
    /\ tool_name' = name
    /\ tool_arg' = c.arg
    /\ tool_content' = c.content
    /\ tool_out' = c.ret
    /\ tool_calls' = tool_calls + 1
    /\ fs' = c.fs
    /\ shell' = shell \o c.calls
    /\ Answered(i, Reply("result", 0, "",
                         IF c.ret.raised
                         THEN ToolResult(TRUE, ErrorText("error_executing_tool", c.ret.exc))
                         ELSE ToolResult(FALSE, c.ret)))
    /\ UNCHANGED <<children, tool_pc, read_back, history_arg, pc, message_history, raw_result,
                   parsed_result, tool_to_call, tool_input, tool_response, returned, escaped,
                   model_calls, runs, request, server_initialized, core_key, reply,
                   client_capabilities, user_query>>

\* tools/call with the name looked up before the key is checked.
RpcToolsCall_name_first(i) ==
  /\ Handling(i, {"tools/call"})
  /\ LET name == rpc[i].call.name.s
         tool_args == rpc[i].call.arguments
         api_key == Get(tool_args.api_key, PyStr(<<>>))
     IN  IF ~server_initialized THEN Refused(i, NotInitialized)
         ELSE IF ~tool_args.given
           THEN Refused(i, Reply("error", -32602, "Invalid tool call params", Absent))
         ELSE IF name \notin available_tools
           THEN Refused(i, Reply("error", -32601, "Tool not found", Absent))
         ELSE IF ~Truthy(api_key)
           THEN Refused(i, Reply("error", -32602, "API key required in tool arguments", Absent))
         ELSE IF ~IsStr(api_key)
           THEN Refused(i, Reply("error", -32602, "Invalid tool call params", Absent))
         ELSE IF ~KeyShape(api_key.s)
           THEN Refused(i, Reply("error", -32602, "Invalid API key format", Absent))
         ELSE ToolRan(i, name, tool_args)

\* Lines 210-211 and 227-277: tools/call.  ToolCallParams(**params) raises
\* without arguments, and a key that is true and no str has no startswith():
\* both end in the except clause of line 276.
RpcToolsCall(i) ==
  /\ Handling(i, {"tools/call"})
  /\ LET name == rpc[i].call.name.s
         tool_args == rpc[i].call.arguments
         api_key == Get(tool_args.api_key, PyStr(<<>>))
     IN  IF ~server_initialized THEN Refused(i, NotInitialized)
         ELSE IF ~tool_args.given
           THEN Refused(i, Reply("error", -32602, "Invalid tool call params", Absent))
         ELSE IF ~Truthy(api_key)
           THEN Refused(i, Reply("error", -32602, "API key required in tool arguments", Absent))
         ELSE IF ~IsStr(api_key)
           THEN Refused(i, Reply("error", -32602, "Invalid tool call params", Absent))
         ELSE IF ~KeyShape(api_key.s)
           THEN Refused(i, Reply("error", -32602, "Invalid API key format", Absent))
         ELSE IF name \notin available_tools
           THEN Refused(i, Reply("error", -32601, "Tool not found", Absent))
         ELSE ToolRan(i, name, tool_args)

\* Lines 210-211 and 285-301: assistant/ask, up to the call of
\* run_assistant, which starts with no call of the model made.
RpcAssistantAsk(i) ==
  /\ Handling(i, {"assistant/ask"})
  /\ LET user_input == Get(rpc[i].call.user_input, PyStr(<<>>))
         api_key == Get(rpc[i].call.api_key, PyStr(<<>>))
     IN  IF ~server_initialized THEN Refused(i, NotInitialized)
         ELSE IF ~Truthy(user_input)
           THEN Refused(i, Reply("error", -32602, "user_input is required", Absent))
         ELSE IF ~Truthy(api_key)
           THEN Refused(i, Reply("error", -32602, "api_key is required", Absent))
         ELSE IF ~IsStr(api_key)
           THEN Refused(i, Reply("error", -32603, "Internal error", Absent))
         ELSE IF ~KeyShape(api_key.s)
           THEN Refused(i, Reply("error", -32602, "Invalid API key format", Absent))
         ELSE /\ rpc' = [rpc EXCEPT ![i].stage = "asking"]
              /\ core_key' = api_key
              /\ user_query' = user_input
              /\ pc' = "entry"
              /\ model_calls' = 0
              /\ UNCHANGED <<children, call_vars, history_arg, message_history, raw_result,
                             parsed_result, tool_to_call, tool_input, tool_response, returned,
                             escaped, tool_calls, runs, request, server_initialized, reply,
                             client_capabilities, shell, fs>>

\* The answers of the model to the runs the server starts: a step that ends
\* the run, and a content that is no JSON.
AskSteps == {JsonObject(PyStr(<<"O","U","T","P","U","T">>), PyStr(<<"d","o","n","e">>), Absent, Absent), Undecodable}

\* assistant_core.py lines 161-173 and 178-179, in a run the server started.
AskCall ==
  /\ pc = "call"
  /\ model_calls < MaxCalls
  /\ model_calls' = model_calls + 1
  /\ \/ /\ returned' = FailedCall(message_history)
        /\ pc' = "done"
        /\ UNCHANGED <<children, message_history, raw_result>>
     \/ \E r \in AskSteps :
          /\ raw_result' = r
          /\ message_history' = Append(message_history, AssistantMessage(r))
          /\ pc' = "parse"
          /\ UNCHANGED returned
  /\ UNCHANGED <<call_vars, server_vars, shell, fs, user_query, history_arg, parsed_result,
                 tool_to_call, tool_input, tool_response, escaped, tool_calls>>

\* Lines 301-309: run_assistant has returned, or an exception has left it.
RpcAskReturn(i) ==
  /\ i \in DOMAIN rpc
  /\ rpc[i].stage = "asking"
  /\ pc \in {"done", "raised"}
  /\ Answered(i, IF pc = "done" THEN Reply("result", 0, "", returned.first)
                 ELSE Reply("error", -32603, "Internal error", Absent))
  /\ pc' = "idle"
  /\ UNCHANGED <<children, call_vars, history_arg, message_history, raw_result, parsed_result,
                 tool_to_call, tool_input, tool_response, returned, escaped, model_calls,
                 tool_calls, runs, request, server_initialized, core_key, reply,
                 client_capabilities, shell, fs, user_query>>

NextRpc ==
  \/ RpcReceive
  \/ \E i \in 1..MaxRequests : RpcInitialize(i)
  \/ \E i \in 1..MaxRequests : RpcPlain(i)
  \/ \E i \in 1..MaxRequests : RpcToolsCall(i)
  \/ \E i \in 1..MaxRequests : RpcAssistantAsk(i)
  \/ Start
  \/ AskCall
  \/ Parse
  \/ Route
  \/ \E i \in 1..MaxRequests : RpcAskReturn(i)

SpecRpc == InitRpc /\ [][NextRpc]_vars

\* ------------------------------------------------ hybrid_server.py: main

\* Everything main leaves alone.
hybrid_rest ==
  <<call_vars, history_arg, message_history, raw_result, parsed_result, tool_to_call,
    tool_input, tool_response, returned, model_calls, tool_calls, runs, request,
    server_initialized, core_key, reply, client_capabilities, rpc, shell, fs, user_query>>

\* Lines 35-36: both Process objects are made, none is started; main is at
\* the first statement of its try block.
InitHybrid ==
  /\ tool_pc = "idle"
  /\ tool_name = "none"
  /\ tool_arg = Absent
  /\ tool_content = Absent
  /\ tool_out = NoCall
  /\ read_back = NoCall
  /\ shell = <<>>
  /\ fs = PlainFs
  /\ user_query = PyStr(<<>>)
  /\ history_arg = NoHistory
  /\ message_history = <<>>
  /\ raw_result = NoResponse
  /\ parsed_result = NoResponse
  /\ tool_to_call = Absent
  /\ tool_input = Absent
  /\ tool_response = NoCall
  /\ returned = NoReturn
  /\ escaped = ""
  /\ model_calls = 0
  /\ tool_calls = 0
  /\ runs = <<>>
  /\ ServerIdle
  /\ pc = "start_simple"

\* The statements of the try block, lines 39-48, in order, and where main
\* is once the last has returned.
TryBlock == <<"start_simple", "sleep", "start_mcp", "join_simple", "join_mcp", "returned">>

\* The statements of the except clause, lines 52-55, and where main is after
\* line 56.
Handler == <<"terminate_simple", "terminate_mcp", "rejoin_simple", "rejoin_mcp", "stopped">>

\* The statement after the one main is at.
After(at) ==
  IF \E k \in 1..(Len(TryBlock) - 1) : TryBlock[k] = at
  THEN TryBlock[(CHOOSE k \in 1..(Len(TryBlock) - 1) : TryBlock[k] = at) + 1]
  ELSE Handler[(CHOOSE k \in 1..(Len(Handler) - 1) : Handler[k] = at) + 1]

\* The Process object a statement is about.
ProcessAt(at) ==
  IF at \in {"start_simple", "join_simple", "terminate_simple", "rejoin_simple"}
  THEN "simple_api_process" ELSE "mcp_server_process"

\* An exception leaves main.
HybridRaises(exc) ==
  /\ escaped' = exc
  /\ pc' = "failed"
  /\ UNCHANGED children

\* Lines 39 and 41: start() forks the server process.
HybridStart ==
  /\ pc \in {"start_simple", "start_mcp"}
  /\ children' = [children EXCEPT ![ProcessAt(pc)].state = "running"]
  /\ pc' = After(pc)
  /\ UNCHANGED <<hybrid_rest, escaped>>

\* Line 40: time.sleep(1) is over.
HybridSleep ==
  /\ pc = "sleep"
  /\ pc' = After(pc)
  /\ UNCHANGED <<hybrid_rest, escaped, children>>

\* Lines 47-48 and 54-55: join() returns once the process has ended; for a
\* Process that was not started it raises ("can only join a started
\* process").
HybridJoin ==
  /\ pc \in {"join_simple", "join_mcp", "rejoin_simple", "rejoin_mcp"}
  /\ IF children[ProcessAt(pc)].state = "unstarted"
       THEN HybridRaises("AssertionError")
     ELSE /\ children[ProcessAt(pc)].state = "exited"
          /\ children' = [children EXCEPT ![ProcessAt(pc)].joined = TRUE]
          /\ pc' = After(pc)
          /\ UNCHANGED escaped
  /\ UNCHANGED hybrid_rest

\* Lines 52-53: terminate() sends SIGTERM to the process.  A Process that
\* was not started has no _popen, and terminate() raises AttributeError.
HybridTerminate ==
  /\ pc \in {"terminate_simple", "terminate_mcp"}
  /\ IF children[ProcessAt(pc)].state = "unstarted"
       THEN HybridRaises("AttributeError")
     ELSE /\ children' = [children EXCEPT ![ProcessAt(pc)].signalled =
                                            @ \/ children[ProcessAt(pc)].state = "running"]
          /\ pc' = After(pc)
          /\ UNCHANGED escaped
  /\ UNCHANGED hybrid_rest

\* Line 50: Ctrl+C while main is in its try block.
KeyboardInterrupt ==
  /\ pc \in {"start_simple", "sleep", "start_mcp", "join_simple", "join_mcp"}
  /\ pc' = "terminate_simple"
  /\ UNCHANGED <<hybrid_rest, escaped, children>>

\* A server process ends: uvicorn returns after a signal (exit code 0), fails
\* to bind its port (1), or SIGTERM ends the process before uvicorn has set
\* its handlers (-15).
ChildExits ==
  /\ \E name \in ChildNames :
       /\ children[name].state = "running"
       /\ \E code \in (IF children[name].signalled THEN {0, -15} ELSE {0, 1}) :
            children' = [children EXCEPT ![name].state = "exited",
                                         ![name].exitcode = PyInt(code)]
  /\ UNCHANGED <<hybrid_rest, escaped, pc>>

NextHybrid ==
  HybridStart \/ HybridSleep \/ HybridJoin \/ HybridTerminate \/ KeyboardInterrupt \/ ChildExits

SpecHybrid == InitHybrid /\ [][NextHybrid]_vars

\* ------------------------------------------------ claims on run_command

\* The three checks as sections 4.1 and 8 of the specification word them.
Denylist ==
  { <<"&","&">>, <<"|","|">>, <<";">>, <<"|">>, <<">">>, <<">",">">>, <<"<">>,
    <<"BQ">>, <<"$">>, <<"$","(">> }

Markers == {DANGEROUS_COMMANDS[i] : i \in 1..Len(DANGEROUS_COMMANDS)}

Allowlist == {SAFE_COMMANDS[i] : i \in 1..Len(SAFE_COMMANDS)}

HasOperator(c) == \E p \in Denylist : Contains(p, c)

LowerMarkers == {Lower(d) : d \in Markers}

LowerAllowlist == {Lower(s) : s \in Allowlist}

\* The lowercased command contains the marker as it is written in the list.
LowerHasMarker(c) == LET lc == Lower(c) IN \E d \in Markers : Contains(d, lc)

\* The command contains the marker, compared case-insensitively.
HasMarkerAnyCase(c) == LET lc == Lower(c) IN \E d \in LowerMarkers : Contains(d, lc)

\* The lowercased, stripped command starts with an allowlist entry (compared
\* case-insensitively: the entry python -V is written with a capital).
StartsAllowed(c) ==
  LET lc == Strip(Lower(c)) IN \E s \in LowerAllowlist : StartsWith(lc, s)

\* The command itself starts with an allowlist entry, whatever the case.
HasSafePrefix(c) == LET lc == Lower(c) IN \E s \in LowerAllowlist : StartsWith(lc, s)

PassesAllChecks(c) == ~HasOperator(c) /\ ~LowerHasMarker(c) /\ StartsAllowed(c)

BlockedKinds == {"blocked_chaining", "blocked_dangerous", "blocked_not_allowed"}

Returned == tool_pc = "returned" /\ IsStr(tool_arg)

\* C1: run_command hands a command to os.system only if it contains no
\* denylisted operator, its lowercased form contains no dangerous marker and
\* its lowercased, stripped form starts with an allowlist entry; every other
\* command gets a blocked text and os.system is not called.
C1_ShellOnlyAfterAllChecks ==
  Returned =>
    /\ shell # <<>> => shell = <<tool_arg.s>> /\ PassesAllChecks(tool_arg.s)
    /\ ~PassesAllChecks(tool_arg.s) =>
         /\ shell = <<>>
         /\ ~tool_out.raised
         /\ tool_out.kind \in BlockedKinds
         /\ tool_out.arg = tool_arg.s

\* C1 witness: git log has passed the checks and has been handed to the shell.
C1_Witness ==
  /\ Returned
  /\ tool_arg.s = <<"g","i","t"," ","l","o","g">>
  /\ shell = <<tool_arg.s>>
  /\ tool_out.kind = "executed"

\* C2: a command containing a denylisted operator is blocked, with the
\* chaining/injection reason, and is not executed, whatever its prefix and
\* whatever dangerous marker it also contains.
C2_OperatorBlockedForChaining ==
  (Returned /\ HasOperator(tool_arg.s)) =>
    /\ ~tool_out.raised
    /\ tool_out.kind = "blocked_chaining"
    /\ tool_out.arg = tool_arg.s
    /\ shell = <<>>

\* C2 witness: git status && rm -rf / has been blocked for chaining.
C2_Witness ==
  /\ Returned
  /\ tool_arg.s = <<"g","i","t"," ","s","t","a","t","u","s"," ","&","&"," ",
                    "r","m"," ","-","r","f"," ","/">>
  /\ HasSafePrefix(tool_arg.s)
  /\ HasMarkerAnyCase(tool_arg.s)
  /\ tool_out.kind = "blocked_chaining"
  /\ shell = <<>>

\* C3 (as claimed): a command without a denylisted operator that contains,
\* compared case-insensitively, an entry of DANGEROUS_COMMANDS is blocked, is
\* not executed, and the reason names a marker the command matches.
C3_MarkerBlockedAndNamed ==
  (Returned /\ ~HasOperator(tool_arg.s) /\ HasMarkerAnyCase(tool_arg.s)) =>
    /\ shell = <<>>
    /\ ~tool_out.raised
    /\ tool_out.kind = "blocked_dangerous"
    /\ tool_out.detail \in Markers
    /\ Contains(Lower(tool_out.detail), Lower(tool_arg.s))

\* C4 (as claimed): a command with a safe prefix, no denylisted operator and no
\* dangerous marker is executed and gets the exit-code-annotated success text.
C4_SafeCommandExecuted ==
  (Returned /\ HasSafePrefix(tool_arg.s) /\ ~HasOperator(tool_arg.s)
            /\ ~HasMarkerAnyCase(tool_arg.s)) =>
    /\ shell = <<tool_arg.s>>
    /\ ~tool_out.raised
    /\ tool_out.kind = "executed"

\* C4 (amended): such a command is never blocked and is handed to os.system;
\* the result is the success text with the exit code when os.system returns,
\* and the error-executing text when os.system raises (an embedded NUL).
C4_SafeCommandAccepted ==
  (Returned /\ HasSafePrefix(tool_arg.s) /\ ~HasOperator(tool_arg.s)
            /\ ~HasMarkerAnyCase(tool_arg.s)) =>
    /\ shell = <<tool_arg.s>>
    /\ ~tool_out.raised
    /\ tool_out.arg = tool_arg.s
    /\ tool_out.kind = (IF Contains(<<"NUL">>, tool_arg.s)
                        THEN "error_executing" ELSE "executed")
    /\ tool_out.kind = "executed" => tool_out.code \in ExitCodes

\* C4 witness: python -V, whose allowlist entry is written with a capital, has
\* been executed and has exited with status 1.
C4_Witness ==
  /\ Returned
  /\ tool_arg.s = <<"p","y","t","h","o","n"," ","-","V">>
  /\ shell = <<tool_arg.s>>
  /\ tool_out.kind = "executed"
  /\ tool_out.code = 1


\* ------------------------------------------------- claims about the tools

\* C5: each of the five tools returns a text for every value it is called
\* with, and no exception leaves it; the safety evaluation of run_command
\* always gives a verdict.
C5_ToolsAlwaysReturnText == tool_pc = "returned" => ~tool_out.raised

\* ---------------------------------------------- claims about run_assistant

\* The step the last response holds, when the response is a JSON object.
StepGiven(name) == raw_result.form = "object" /\ raw_result.step = PyStr(name)

\* The message at index i is the assistant message of a TOOL step.
ToolStepAt(i) ==
  /\ message_history[i].role = "assistant"
  /\ message_history[i].content.raw_result.form = "object"
  /\ message_history[i].content.raw_result.step = PyStr(<<"T","O","O","L">>)

\* The message at index i is the observation of the TOOL step before it: it
\* holds the step's tool and input as given ("" for one that is missing) and
\* a text as output.
ObservedAt(i) ==
  LET given == message_history[i - 1].content.raw_result
      seen  == message_history[i].content
  IN  /\ message_history[i].role = "developer"
      /\ seen.step = "OBSERVE"
      /\ seen.tool = (IF given.tool = Absent THEN PyStr(<<>>) ELSE given.tool)
      /\ seen.input = (IF given.input = Absent THEN PyStr(<<>>) ELSE given.input)
      /\ ~seen.output.raised
      /\ seen.output.kind \in
           {"tool_not_found", "no_input", "no_file_path", "error_executing_tool",
            "blocked_chaining", "blocked_dangerous", "blocked_not_allowed", "executed",
            "error_executing", "created", "error_creating", "contents", "error_reading",
            "updated", "error_writing", "analysis", "error_analyzing"}

\* The messages of this run come after the ones it was seeded with.
SeededLength == IF history_arg.given THEN Len(history_arg.list) + 1 ELSE 2

\* C6: whatever the responses and the outcomes of the model calls,
\* run_assistant returns a pair whose first element is a str: no exception
\* leaves it and it returns no value of another type.
C6_AlwaysReturnsText == pc # "raised" /\ (pc = "done" => returned.first.ty = "str")

\* C7: every TOOL step, whatever the dispatch comes to, is followed in the
\* history by exactly one observation with the tool, the input as given and a
\* result text, and run_assistant does not return on it but goes on to the
\* next model call.
C7_ToolStepObserved ==
  \A i \in (SeededLength + 1)..Len(message_history) :
     ToolStepAt(i) =>
        IF i = Len(message_history) THEN pc \in {"parse", "route", "tool", "observe"}
        ELSE /\ ObservedAt(i + 1)
             /\ IF i + 1 = Len(message_history)
                THEN pc = "call" \/ (pc = "done" /\ model_calls > 1
                                       /\ returned.first.kind = "API Error")
                ELSE message_history[i + 2].role = "assistant"

\* A TOOL step whose dispatch raised was observed, and the model was called
\* again after it.
C7_Witness ==
  \E i \in (SeededLength + 1)..(Len(message_history) - 2) :
     /\ ToolStepAt(i)
     /\ message_history[i + 1].content.output.kind = "error_executing_tool"
     /\ message_history[i + 2].role = "assistant"

\* C8: on an OUTPUT step run_assistant returns the content of the step and
\* the whole history, and from the step on it calls neither the model nor a
\* tool.
C8_OutputReturnsContent ==
  /\ [](StepGiven(<<"O","U","T","P","U","T">>) /\ pc \notin {"parse", "route"} =>
          /\ pc = "done"
          /\ returned.first.kind = "content"
          /\ <<returned.first.ty, returned.first.s, returned.first.n>> =
               (IF raw_result.content = Absent THEN <<"str", <<>>, 0>>
                ELSE <<raw_result.content.ty, raw_result.content.s, raw_result.content.n>>)
          /\ returned.history = message_history
          /\ message_history[Len(message_history)].content.raw_result = raw_result)
  /\ [][StepGiven(<<"O","U","T","P","U","T">>) =>
          /\ pc # "done"
          /\ model_calls' = model_calls
          /\ UNCHANGED <<tool_calls, shell, fs, message_history>>]_vars

\* An OUTPUT step came after a TOOL step and its content was returned.
C8_Witness ==
  /\ pc = "done"
  /\ StepGiven(<<"O","U","T","P","U","T">>)
  /\ returned.first.s = <<"d","o","n","e">>
  /\ tool_calls = 1
  /\ Len(returned.history) = SeededLength + 3

\* C9: on a response that json.loads cannot decode run_assistant returns at
\* once the error text with the parse error and the raw response, and the
\* history, which ends with the raw response as assistant message; it calls
\* neither the model nor a tool after it.
C9_UndecodableEndsRun ==
  /\ [](raw_result.form = "undecodable" /\ pc # "parse" =>
          /\ pc = "done"
          /\ returned.first.ty = "str"
          /\ returned.first.kind = "Failed to parse AI response as JSON"
          /\ returned.first.exc = "JSONDecodeError"
          /\ returned.first.raw = raw_result
          /\ returned.history = message_history
          /\ message_history[Len(message_history)].role = "assistant"
          /\ message_history[Len(message_history)].content.raw_result = raw_result)
  /\ [][raw_result.form = "undecodable" =>
          /\ pc = "parse"
          /\ model_calls' = model_calls
          /\ UNCHANGED <<tool_calls, shell, fs, message_history>>]_vars

\* The second response, after a tool was run, could not be decoded.
C9_Witness ==
  /\ pc = "done"
  /\ raw_result.form = "undecodable"
  /\ returned.first.raw = Undecodable
  /\ model_calls = 2
  /\ tool_calls = 1

\* C10: when the request of a model call fails run_assistant returns an error
\* string at once, with the history as it was before the call; no model call
\* and no tool call follows.
C10_FailedCallEndsRun ==
  /\ [][model_calls' # model_calls /\ pc' # "parse" =>
          /\ pc' = "done"
          /\ returned'.first.ty = "str"
          /\ returned'.first.kind = "API Error"
          /\ returned'.history = message_history
          /\ UNCHANGED <<message_history, tool_calls, shell, fs>>]_vars
  /\ [][pc = "done" /\ returned.first.kind = "API Error" => FALSE]_vars

\* The second model call failed, after the observation of a tool.
C10_Witness ==
  /\ pc = "done"
  /\ returned.first.kind = "API Error"
  /\ returned.first.exc = "APIError"
  /\ model_calls = 2
  /\ message_history[Len(message_history)].role = "developer"
  /\ returned.history = message_history

\* ------------------------------------------- claims about the file tools

\* Every path that exists in a file system, directory or file.
Paths(f) == f.dirs \cup DOMAIN f.files

\* C11: a call of write_file leaves the set of existing paths as it was: it
\* creates no file and no directory, whatever the file system and the path.
C11_WriteFileCreatesNothing == [][WriteFile => Paths(fs') = Paths(fs)]_vars

\* The path is found neither as given nor in a folder of ai_projects nor in
\* another folder of the working directory.
FoundNowhere(s, f) ==
  /\ PathOf(s) \notin Paths(f)
  /\ \A d \in f.dirs :
       (Len(d) = 1 \/ (Len(d) = 2 /\ d[1] = <<"a","i","_","p","r","o","j","e","c","t","s">>)) => d \o PathOf(s) \notin Paths(f)

\* C12: write_file on a path that is found nowhere returns an error text, not
\* the text of a successful update.
C12_WriteFileNotFoundIsError ==
  [][WriteFile /\ IsStr(tool_arg) /\ FoundNowhere(tool_arg.s, fs) =>
       tool_out'.kind = "error_writing"]_vars

\* C13: when create_file succeeded, read_file called with the same path
\* returns the content create_file was given, unchanged, whatever the request
\* create_file was called on behalf of.
C13_CreateThenReadRoundTrip ==
  tool_pc = "read" /\ tool_out.kind = "created" =>
     /\ read_back.kind = "contents"
     /\ read_back.detail = tool_content.s

\* The path names a folder: it holds '/' or '\'.
HasSeparator(s) == \E i \in 1..Len(s) : s[i] \in {"/", "\\"}

\* C14: for a path that holds a directory separator create_file infers no
\* folder, whatever the content and the request: it makes no directory and
\* touches no path but the given one; the given path is opened as it is, so
\* the call succeeds whenever that path can be written to, the file then
\* holds the content, and the success text names the path as given.
C14_LiteralPathHonored ==
  [][CreateFile /\ IsStr(tool_arg) /\ HasSeparator(tool_arg.s) =>
       /\ fs'.dirs = fs.dirs
       /\ DOMAIN fs'.files \subseteq DOMAIN fs.files \cup {PathOf(tool_arg.s)}
       /\ \A q \in DOMAIN fs.files :
            q \in DOMAIN fs'.files /\ (q # PathOf(tool_arg.s) => fs'.files[q] = fs.files[q])
       /\ tool_out'.kind \in {"created", "error_creating"}
       /\ tool_out'.kind = "created" <=>
            /\ IsStr(tool_content)
            /\ Parent(PathOf(tool_arg.s)) \in fs.dirs
            /\ PathOf(tool_arg.s) \notin fs.dirs
       /\ tool_out'.kind = "created" =>
            /\ tool_out'.arg = tool_arg.s
            /\ fs'.files[PathOf(tool_arg.s)] = tool_content.s]_vars

\* A file was created in an existing folder named by the path, on behalf of
\* a request that names a location, and no folder of the request was made.
C14_Witness ==
  /\ tool_pc = "returned"
  /\ tool_name = "create_file"
  /\ tool_arg = PyStr(<<"l","e","g","a","c","y","/","n","e","w",".","p","y">>)
  /\ user_query = PyStr(<<"s","a","v","e"," ","i","t"," ","i","n"," ","f","o","l","d","e","r",":"," ","a","p","p","s">>)
  /\ tool_out.kind = "created"
  /\ tool_out.arg = <<"l","e","g","a","c","y","/","n","e","w",".","p","y">>
  /\ <<<<"l","e","g","a","c","y">>, <<"n","e","w",".","p","y">>>> \in DOMAIN fs.files
  /\ <<<<"f","o","l","d","e","r",":">>>> \notin fs.dirs

\* The path names a folder that does not exist, below the working directory.
MissingParent(s, f) ==
  /\ HasSeparator(s)
  /\ Len(PathOf(s)) > 1
  /\ Parent(PathOf(s)) \notin Paths(f)

\* C15: create_file makes the directories the final path needs before it
\* writes, also for a path that names its folder itself, so no call fails for
\* a parent directory that is missing.
C15_MissingParentIsCreated ==
  [][CreateFile /\ IsStr(tool_arg) /\ IsStr(tool_content) /\ MissingParent(tool_arg.s, fs) =>
       /\ tool_out'.kind = "created"
       /\ Parent(PathOf(tool_arg.s)) \in fs'.dirs]_vars

\* ------------------------------ claims about the order of run_assistant

\* C16: an iteration of the loop makes one model call, parses its response
\* once and calls at most one tool function, in that order: a response is
\* parsed only right after the model call that gave it, a tool is dispatched
\* only on the parsed response of the same iteration, one dispatch calls at
\* most one tool function, and after it the observation and the next model
\* call follow, so no two tool calls lie between two model calls.
C16_OneCallOneParseOneTool ==
  /\ [](tool_calls <= model_calls)
  /\ [][/\ model_calls' # model_calls => pc = "call" /\ model_calls' = model_calls + 1
        /\ pc' = "parse" => pc = "call" /\ model_calls' = model_calls + 1
        /\ parsed_result' # parsed_result =>
             pc = "parse" /\ parsed_result' = json_loads(raw_result).value
        /\ pc' = "route" => pc = "parse"
        /\ pc' = "tool" => pc = "route" /\ parsed_result = json_loads(raw_result).value
        /\ (tool_calls' # tool_calls \/ fs' # fs \/ shell' # shell) => pc = "tool"
        /\ pc = "tool" => pc' = "observe" /\ tool_calls' \in {tool_calls, tool_calls + 1}
        /\ pc = "observe" => pc' = "call"
        /\ pc' = "call" => pc \in {"entry", "route", "observe"}]_vars

\* Two iterations ran a tool each.
C16_Witness == pc = "observe" /\ model_calls = 2 /\ tool_calls = 2 /\ Len(shell) = 1

\* C17: among the messages of a run every observation (role developer, step
\* OBSERVE) comes right after the assistant message of a TOOL step, and every
\* assistant message of a TOOL step is followed by its observation before the
\* next model call; observations are appended by the loop after a dispatch,
\* never with a response of the model or with the query of the user.
C17_ObservationsFollowToolSteps ==
  /\ [](\A i \in (SeededLength + 1)..Len(message_history) :
          /\ message_history[i].role \in {"assistant", "developer"}
          /\ message_history[i].role = "developer" =>
               /\ message_history[i].content.step = "OBSERVE"
               /\ i - 1 > SeededLength
               /\ ToolStepAt(i - 1)
          /\ ToolStepAt(i) =>
               IF i = Len(message_history) THEN pc \in {"parse", "route", "tool", "observe"}
               ELSE message_history[i + 1].role = "developer")
  /\ [](pc # "entry" => message_history[SeededLength].role = "user")
  /\ [][Len(message_history') > Len(message_history)
          /\ message_history'[Len(message_history')].role = "developer" =>
             /\ pc = "observe"
             /\ model_calls' = model_calls
             /\ message_history'[Len(message_history')].content.output = tool_response]_vars

\* A step that is neither of the four was answered after the observation of
\* a TOOL step: it was given no observation.
C17_Witness ==
  /\ pc = "call"
  /\ model_calls = 2
  /\ Len(message_history) = SeededLength + 3
  /\ ToolStepAt(SeededLength + 1)
  /\ message_history[SeededLength + 2].role = "developer"
  /\ message_history[SeededLength + 3].content.raw_result.step = PyStr(<<"T","H","I","N","K">>)

\* C18: in every state of a run, with or without a history of the caller,
\* the first message of the conversation is the system instruction, in the
\* history sent to the model and in the history returned.
C18_FirstMessageIsSystem ==
  /\ pc # "entry" => Len(message_history) > 0 /\ message_history[1] = SystemMessage
  /\ pc = "done" => Len(returned.history) > 0 /\ returned.history[1] = SystemMessage

\* h is the beginning of g.
IsPrefixOf(h, g) == Len(h) <= Len(g) /\ SubSeq(g, 1, Len(h)) = h

\* C19: the history only grows at its end: the run starts from the seed and
\* the user message, every later step leaves the messages it finds as they
\* are and in place and appends at most one, the assistant message of the
\* response just received or the observation of the tool just run, and the
\* history returned is the history at that point.
C19_HistoryAppendOnly ==
  /\ [][pc = "entry" =>
          /\ message_history'[Len(message_history')] = [role |-> "user", content |-> [query |-> user_query]]
          /\ SubSeq(message_history', 1, Len(message_history') - 1) =
               (IF history_arg.given THEN history_arg.list ELSE <<SystemMessage>>)]_vars
  /\ [][pc # "entry" =>
          /\ IsPrefixOf(message_history, message_history')
          /\ Len(message_history') <= Len(message_history) + 1
          /\ (pc' = "parse" <=> /\ Len(message_history') = Len(message_history) + 1
                                /\ message_history'[Len(message_history')] =
                                     [role |-> "assistant", content |-> [raw_result |-> raw_result']])
          /\ (pc = "observe" <=> /\ Len(message_history') = Len(message_history) + 1
                                 /\ message_history'[Len(message_history')].role = "developer"
                                 /\ message_history'[Len(message_history')].content.tool = tool_to_call
                                 /\ message_history'[Len(message_history')].content.output = tool_response)
          /\ pc' = "done" => returned'.history = message_history]_vars

\* A run on a history of the caller returned it with the user message, the
\* TOOL step, its observation and the OUTPUT step after it.
C19_Witness ==
  /\ pc = "done"
  /\ history_arg.given
  /\ Len(history_arg.list) = 3
  /\ Len(returned.history) = 7
  /\ IsPrefixOf(history_arg.list, returned.history)
  /\ returned.history[4].role = "user"
  /\ returned.history[6].role = "developer"
  /\ returned.first.kind = "content"

\* C20: the loop has no cap on its iterations.  run_assistant returns only
\* on an OUTPUT step, on a response that cannot be decoded or on a model call
\* that failed; after a START, PLAN or TOOL step the next model call is
\* issued, however many came before; once the model has answered with an
\* OUTPUT step the run returns; and the dispatch of a TOOL step has an outcome
\* for every step, so the loop never stops at it.
C20_LoopEndsOnlyOnOutputOrFailure ==
  /\ [][pc' = "done" =>
          \/ /\ pc = "route"
             /\ StepGiven(<<"O","U","T","P","U","T">>)
             /\ returned'.first.kind = "content"
          \/ /\ pc = "parse"
             /\ json_loads(raw_result).exc # ""
             /\ returned'.first.kind \in {"Failed to parse AI response as JSON", "API Error"}
          \/ /\ pc = "call"
             /\ model_calls' = model_calls + 1
             /\ returned'.first.kind = "API Error"]_vars
  /\ \A k \in 0..(MaxCalls - 1) :
        (/\ model_calls = k
         /\ pc = "route"
         /\ StepGiven(<<"S","T","A","R","T">>) \/ StepGiven(<<"P","L","A","N">>) \/ StepGiven(<<"T","O","O","L">>))
          ~> (model_calls = k + 1)
  /\ (pc = "parse" /\ StepGiven(<<"O","U","T","P","U","T">>)) ~> (pc = "done")
  /\ [](pc = "tool" =>
          \A code \in ExitCodes :
             dispatch(Get(parsed_result.tool, PyStr(<<>>)), Get(parsed_result.input, PyStr(<<>>)),
                      user_query, fs, code) # {})

\* The run returned on an OUTPUT step that came after a PLAN step.
C20_Witness ==
  /\ pc = "done"
  /\ model_calls = 2
  /\ StepGiven(<<"O","U","T","P","U","T">>)
  /\ returned.first.kind = "content"
  /\ Len(message_history) = SeededLength + 2
  /\ message_history[SeededLength + 1].content.raw_result.step = PyStr(<<"P","L","A","N">>)

\* --------------------------------------- claims about concurrent requests

\* The message is one that invocation i can have appended: the system
\* instruction, its query, a response given to it, or the observation of a
\* tool step given to it.
OwnMessage(i, msg) ==
  \/ msg = SystemMessage
  \/ msg = [role |-> "user", content |-> [query |-> QueryOf(i)]]
  \/ msg.role = "assistant" /\ msg.content.raw_result \in ResponsesTo(i)
  \/ /\ msg.role = "developer"
     /\ \E r \in ResponsesTo(i) : r.tool = msg.content.tool /\ r.input = msg.content.input

\* C21: invocations of run_assistant that run at the same time own their
\* histories.  Under every interleaving of their steps the history of an
\* invocation holds only messages of its own, a step of one invocation leaves
\* the locals of the other as they are, and the history of an invocation
\* grows only by its own query, the responses given to it and the results of
\* its own tool calls, so what it returns is what it would return alone with
\* these responses and results.
C21_InvocationsOwnTheirHistory ==
  /\ [](\A i \in Invocations :
          /\ \A k \in 1..Len(runs[i].message_history) :
                OwnMessage(i, runs[i].message_history[k])
          /\ runs[i].pc = "done" => runs[i].returned.history = runs[i].message_history)
  /\ [][\A i \in Invocations :
          /\ runs'[i] # runs[i] => \A j \in Invocations \ {i} : runs'[j] = runs[j]
          /\ \/ runs'[i].message_history = runs[i].message_history
             \/ /\ runs[i].pc = "entry"
                /\ runs'[i].message_history =
                     << SystemMessage, [role |-> "user", content |-> [query |-> QueryOf(i)]] >>
             \/ /\ runs[i].pc = "call"
                /\ runs'[i].message_history =
                     Append(runs[i].message_history,
                            [role |-> "assistant",
                             content |-> [raw_result |-> runs'[i].raw_result]])
             \/ /\ runs[i].pc = "observe"
                /\ runs'[i].message_history =
                     Append(runs[i].message_history,
                            [role |-> "developer",
                             content |-> [step |-> "OBSERVE",
                                          tool |-> runs[i].tool_to_call,
                                          input |-> runs[i].tool_input,
                                          output |-> runs[i].tool_response]])]_vars

\* Both invocations returned after a tool step each; the second one read the
\* file the first one had created in between.
C21_Witness ==
  /\ runs # <<>>
  /\ \A i \in Invocations : runs[i].pc = "done" /\ Len(runs[i].returned.history) = 5
  /\ runs[1].returned.history[4].content.output.kind = "created"
  /\ runs[2].returned.history[4].content.output.kind = "contents"
  /\ runs[2].returned.history[4].content.output.detail = <<"x">>

\* ------------------------------------------- claims about the service layer

\* The value is a str that is not empty, starts with "sk-" and has at least
\* 40 characters.
PassesShape(v) ==
  /\ v.ty = "str"
  /\ Len(v.s) >= 40
  /\ <<v.s[1], v.s[2], v.s[3]>> = <<"s", "k", "-">>

\* The key a handler checks: /api/ask strips the key of the body first, the
\* JSON-RPC method takes the key of the params as it is.
KeyChecked ==
  IF request.endpoint = "api_ask" THEN PyStr(Strip(request.api_key.s)) ELSE request.api_key

\* C22: /api/ask and the JSON-RPC method assistant/ask call run_assistant
\* only with an API key that is not empty, starts with "sk-" and has at least
\* 40 characters, the key they checked; for any other key they return an
\* error response, and run_assistant is not reached: no model call and no
\* tool call is made.
C22_CoreOnlyWithShapedKey ==
  /\ pc # "idle" => PassesShape(core_key) /\ core_key = KeyChecked
  /\ ~PassesShape(KeyChecked) =>
       /\ pc = "idle"
       /\ core_key = Absent
       /\ model_calls = 0 /\ tool_calls = 0 /\ message_history = <<>>
       /\ reply # NoReply => reply.kind \in {"response", "error"} /\ reply.message # ""

\* A key of 39 characters was turned down by /api/ask.
C22_Witness ==
  /\ request = AskRequest(PyStr(Key(36)))
  /\ reply.message = "Error: Invalid API key format."
  /\ pc = "idle"

\* ------------------------------------ claims about where files are placed

\* sub is part of text.
PartOf(sub, text) ==
  \E i \in 1..(Len(text) - Len(sub) + 1) : SubSeq(text, i, i + Len(sub) - 1) = sub

\* The container of the first project type of the taxonomy one of whose
\* keywords is part of text, <<>> when there is none.
ContainerByKeyword(text) ==
  LET types == {i \in 1..Len(project_patterns) :
                  \E k \in project_patterns[i].keywords : PartOf(k, text)}
  IN  IF types = {} THEN <<>>
      ELSE project_patterns[CHOOSE i \in types : \A j \in types : i <= j].project \o <<"_","a","p","p">>

\* name ends with ext.
HasExtension(name, ext) ==
  Len(name) >= Len(ext) /\ SubSeq(name, Len(name) - Len(ext) + 1, Len(name)) = ext

\* The container by the extension of the file name, <<>> for none.
ContainerByExtension(name) ==
  IF \E ext \in {<<".","h","t","m","l">>, <<".","c","s","s">>, <<".","j","s">>} : HasExtension(name, ext) THEN <<"w","e","b","_","a","p","p">>
  ELSE IF HasExtension(name, <<".","p","y">>) THEN <<"p","y","t","h","o","n","_","p","r","o","j","e","c","t">>
  ELSE <<>>

\* The container the claim names: by a keyword in the file name, else by a
\* keyword in the content, else by the extension.
ClaimedContainer(name, content) ==
  IF ContainerByKeyword(Lower(name)) # <<>> THEN ContainerByKeyword(Lower(name))
  ELSE IF ContainerByKeyword(Lower(content)) # <<>> THEN ContainerByKeyword(Lower(content))
  ELSE ContainerByExtension(name)

\* The requests that name no location.
PlainRequests == {PyStr(<<>>), PyStr(<<"C","r","e","a","t","e"," ","a"," ","t","o","d","o"," ","a","p","p">>)}

\* The call is one the claim is about: a file name without separator, a
\* content that is a str and a request that names no location.
PlainCreate ==
  /\ CreateFile
  /\ IsStr(tool_arg) /\ ~HasSeparator(tool_arg.s)
  /\ IsStr(tool_content)
  /\ user_query \in PlainRequests

\* The call put the file into the container under ai_projects, or at the bare
\* file name for no container, and failed only where the file cannot be
\* written: for an empty name, for ai_projects being a file, or for a bare
\* name that is a directory.
PlacedIn(container) ==
  /\ tool_out'.kind \in {"created", "error_creating"}
  /\ tool_out'.kind = "error_creating" =>
       \/ tool_arg.s = <<>>
       \/ container # <<>> /\ <<<<"a","i","_","p","r","o","j","e","c","t","s">>>> \in DOMAIN fs.files
       \/ container = <<>> /\ <<tool_arg.s>> \in fs.dirs
  /\ tool_out'.kind = "created" =>
       IF container = <<>>
         THEN /\ tool_out'.arg = tool_arg.s
              /\ fs'.dirs = fs.dirs
              /\ <<tool_arg.s>> \in DOMAIN fs'.files
              /\ fs'.files[<<tool_arg.s>>] = tool_content.s
       ELSE /\ tool_out'.arg = <<"a","i","_","p","r","o","j","e","c","t","s","/">> \o container \o <<"/">> \o tool_arg.s
            /\ {<<<<"a","i","_","p","r","o","j","e","c","t","s">>>>, <<<<"a","i","_","p","r","o","j","e","c","t","s">>, container>>} \subseteq fs'.dirs
            /\ <<<<"a","i","_","p","r","o","j","e","c","t","s">>, container, tool_arg.s>> \in DOMAIN fs'.files
            /\ fs'.files[<<<<"a","i","_","p","r","o","j","e","c","t","s">>, container, tool_arg.s>>] = tool_content.s
            /\ <<tool_arg.s>> \in DOMAIN fs'.files => <<tool_arg.s>> \in DOMAIN fs.files

TitleContainer(content) ==
  LET low    == Lower(content)
      opens  == {i \in 1..(Len(low) - 6) : SubSeq(low, i, i + 6) = <<"<","t","i","t","l","e",">">>}
      a      == CHOOSE i \in opens : \A j \in opens : i <= j
      closes == {j \in (a + 7)..(Len(low) - 7) :
                   /\ SubSeq(low, j, j + 7) = <<"<","/","t","i","t","l","e",">">>
                   /\ \A k \in (a + 7)..(j - 1) : content[k] # "NL"}
      b      == CHOOSE j \in closes : \A k \in closes : j <= k
  IN  IF opens = {} THEN <<>>
      ELSE IF closes = {} THEN <<>>
      ELSE Lower(SubRuns(Strip(SelectSeq(Strip(SubSeq(content, a + 7, b - 1)),
                                         LAMBDA ch : ch \in TitleKeeps))))

\* The container with the title taken into account: an .html file without a
\* keyword whose title gives a name of more than two characters goes into the
\* folder of that name.
AmendedContainer(name, content) ==
  IF ContainerByKeyword(Lower(name)) # <<>> THEN ContainerByKeyword(Lower(name))
  ELSE IF ContainerByKeyword(Lower(content)) # <<>> THEN ContainerByKeyword(Lower(content))
  ELSE IF HasExtension(name, <<".","h","t","m","l">>) /\ Len(TitleContainer(content)) > 2
    THEN TitleContainer(content)
  ELSE ContainerByExtension(name)

ProjectFoldersWith(file_path, disk) ==
  {d \in disk.dirs : /\ Len(d) = 2
                   /\ d[1] = <<"a","i","_","p","r","o","j","e","c","t","s">>
                   /\ Exists(disk, d \o PathOf(file_path))}

\* The directories of the working directory, other than ai_projects, that
\* hold file_path, in the file system disk.
TopLevelWith(file_path, disk) ==
  {d \in disk.dirs : /\ Len(d) = 1
                   /\ d # <<<<"a","i","_","p","r","o","j","e","c","t","s">>>>
                   /\ Exists(disk, d \o PathOf(file_path))}

\* The paths the fixed order of the claim allows read_file to read: the
\* literal path if it exists, else the file in a folder of ai_projects, else
\* the file in a directory of the working directory, else none.
FirstMatches(file_path, disk) ==
  IF Exists(disk, PathOf(file_path)) THEN {PathOf(file_path)}
  ELSE IF ProjectFoldersWith(file_path, disk) # {}
    THEN {d \o PathOf(file_path) : d \in ProjectFoldersWith(file_path, disk)}
  ELSE {d \o PathOf(file_path) : d \in TopLevelWith(file_path, disk)}

\* The call is a read_file of a file name that is a str and not empty, in a
\* working directory where ai_projects is no file.
PlainRead ==
  /\ ReadFile
  /\ IsStr(tool_arg) /\ tool_arg.s # <<>>
  /\ ~IsFile(fs, <<<<"a","i","_","p","r","o","j","e","c","t","s">>>>)

\* C25: read_file reads the literal path if it exists, otherwise the file in
\* a folder of ai_projects that holds it, otherwise the file in a top-level
\* directory that holds it; a match in ai_projects is not replaced by a
\* match in a top-level directory, nothing matching gives an error text, and
\* the file system is as it was.
C25_ReadFileFirstMatchWins ==
  [][PlainRead =>
       /\ fs' = fs
       /\ tool_out'.kind \in {"contents", "error_reading"}
       /\ FirstMatches(tool_arg.s, fs) = {} => tool_out'.kind = "error_reading"
       /\ tool_out'.kind = "contents" =>
            \E p \in FirstMatches(tool_arg.s, fs) :
              /\ IsFile(fs, p)
              /\ tool_out'.detail = fs.files[p]
       /\ tool_out'.kind = "error_reading" =>
            \A p \in FirstMatches(tool_arg.s, fs) : ~IsFile(fs, p)]_vars

\* ------------------------------------- claims about the steps of the loop

\* The messages of this run after the query of the user.
RunIndices == (SeededLength + 1)..Len(message_history)

\* The names of the five tools.
FiveTools == {<<"r","u","n","_","c","o","m","m","a","n","d">>, <<"c","r","e","a","t","e","_","f","i","l","e">>, <<"r","e","a","d","_","f","i","l","e">>, <<"w","r","i","t","e","_","f","i","l","e">>, <<"a","n","a","l","y","z","e","_","c","o","d","e">>}

\* The text has a path before its first newline.
NamesPath(text) ==
  \E i \in 1..Len(text) :
    /\ text[i] \notin {" ", "NL", "TAB", "CR", "FF", "VT"}
    /\ \A j \in 1..(i - 1) : text[j] # "NL"

\* The response r is a well-formed step: a JSON object whose step is one of
\* the four, and for TOOL one that names one of the five tools and has an
\* input that is a str and not empty, with a path for create_file and
\* write_file.
WellFormedStep(r) ==
  /\ r.form = "object"
  /\ r.step \in {PyStr(<<"S","T","A","R","T">>), PyStr(<<"P","L","A","N">>), PyStr(<<"T","O","O","L">>), PyStr(<<"O","U","T","P","U","T">>)}
  /\ r.step = PyStr(<<"T","O","O","L">>) =>
       /\ IsStr(r.tool) /\ r.tool.s \in FiveTools
       /\ IsStr(r.input) /\ r.input.s # <<>>
       /\ r.tool.s \in {<<"c","r","e","a","t","e","_","f","i","l","e">>, <<"w","r","i","t","e","_","f","i","l","e">>} => NamesPath(r.input.s)

\* The message at index i is the assistant message of the step named.
StepAt(i, name) ==
  /\ message_history[i].role = "assistant"
  /\ message_history[i].content.raw_result.form = "object"
  /\ message_history[i].content.raw_result.step = PyStr(name)

\* The run is over, every response of the model was a well-formed step and
\* the last one was the first OUTPUT.
EndedOnFirstOutput ==
  /\ pc = "done"
  /\ RunIndices # {}
  /\ StepAt(Len(message_history), <<"O","U","T","P","U","T">>)
  /\ \A i \in RunIndices :
       message_history[i].role = "assistant" =>
         /\ WellFormedStep(message_history[i].content.raw_result)
         /\ i < Len(message_history) => ~StepAt(i, <<"O","U","T","P","U","T">>)

\* C26: when the run ends on the first OUTPUT of a sequence of n well-formed
\* steps with no failed call, the model was called n times, a tool function
\* was invoked once for each TOOL step and there are as many observations as
\* TOOL steps.
C26_CallsToolsAndObservationsCounted ==
  EndedOnFirstOutput =>
    /\ model_calls = Cardinality({i \in RunIndices : message_history[i].role = "assistant"})
    /\ tool_calls = Cardinality({i \in RunIndices : StepAt(i, <<"T","O","O","L">>)})
    /\ Cardinality({i \in RunIndices : message_history[i].role = "developer"})
         = Cardinality({i \in RunIndices : StepAt(i, <<"T","O","O","L">>)})
    /\ \A i \in RunIndices : message_history[i].role \in {"assistant", "developer"}

\* TOOL then OUTPUT: two model calls, one tool call and one observation.
C26_Witness ==
  /\ EndedOnFirstOutput
  /\ Len(message_history) = SeededLength + 3
  /\ StepAt(SeededLength + 1, <<"T","O","O","L">>)
  /\ message_history[SeededLength + 2].role = "developer"
  /\ model_calls = 2
  /\ tool_calls = 1

\* The last response is a START or a PLAN step.
PlanningStep == StepGiven(<<"S","T","A","R","T">>) \/ StepGiven(<<"P","L","A","N">>)

\* C27: a START or PLAN step changes nothing but the history, by the one
\* assistant message that records it: the model call that receives it
\* appends that message and touches neither files nor shell, decoding it and
\* looking at its step change neither the history nor the file system, invoke
\* no tool and return nothing, and the loop is then at its next model call
\* with the recorded step as the last message and no observation after it.
C27_PlanningStepOnlyRecorded ==
  /\ [][(pc' = "parse" /\ PlanningStep') =>
          /\ pc = "call"
          /\ message_history' = Append(message_history, AssistantMessage(raw_result'))
          /\ model_calls' = model_calls + 1
          /\ UNCHANGED <<fs, shell, tool_calls, returned>>]_vars
  /\ [][(pc = "parse" /\ PlanningStep) =>
          /\ pc' = "route"
          /\ UNCHANGED <<message_history, fs, shell, tool_calls, model_calls, returned, raw_result>>]_vars
  /\ [][(pc = "route" /\ PlanningStep) =>
          /\ pc' = "call"
          /\ UNCHANGED <<message_history, fs, shell, tool_calls, model_calls, returned,
                         tool_to_call, tool_input, tool_response>>]_vars
  /\ []((pc \in {"parse", "route"} /\ PlanningStep) =>
          message_history[Len(message_history)] = AssistantMessage(raw_result))

\* A PLAN step was recorded and the loop is at its second model call: no
\* tool ran and nothing was observed.
C27_Witness ==
  /\ pc = "call"
  /\ model_calls = 1
  /\ PlanningStep
  /\ Len(message_history) = SeededLength + 1
  /\ StepAt(SeededLength + 1, <<"P","L","A","N">>)
  /\ tool_calls = 0
  /\ shell = <<>>

\* ------------------------------------ claims about the input of a TOOL step

\* The characters trimmed off a path.
Blanks == {" ", "NL", "TAB", "CR", "FF", "VT"}

\* text without the blanks at its ends.
Trimmed(text) ==
  IF \A i \in 1..Len(text) : text[i] \in Blanks THEN <<>>
  ELSE SubSeq(text,
              CHOOSE a \in 1..Len(text) :
                text[a] \notin Blanks /\ \A j \in 1..(a - 1) : text[j] \in Blanks,
              CHOOSE b \in 1..Len(text) :
                text[b] \notin Blanks /\ \A j \in (b + 1)..Len(text) : text[j] \in Blanks)

\* The lengths a first line of text can have: what comes before the first
\* newline, the whole text when there is none.
FirstLineLengths(text) ==
  {n \in 0..Len(text) :
     /\ \A j \in 1..n : text[j] # "NL"
     /\ n < Len(text) => text[n + 1] = "NL"}

\* The path the claim reads off the input of create_file and write_file.
PathPart(text) ==
  Trimmed(SubSeq(text, 1, CHOOSE n \in FirstLineLengths(text) : TRUE))

\* The content the claim reads off it.
ContentPart(text) ==
  SubSeq(text, (CHOOSE n \in FirstLineLengths(text) : TRUE) + 2, Len(text))

\* The loop is at the dispatch of a TOOL step that names one of the five
\* tools and has an input that is a str and not empty.
AtDispatch ==
  /\ pc = "tool"
  /\ IsStr(parsed_result.tool) /\ parsed_result.tool.s \in FiveTools
  /\ IsStr(parsed_result.input) /\ parsed_result.input.s # <<>>

\* What the tool function named comes to when it is called with the
\* arguments the claim gives it.
CalledAsClaimed(tool, input) ==
  IF tool = <<"c","r","e","a","t","e","_","f","i","l","e">>
    THEN create_file(PyStr(PathPart(input)), PyStr(ContentPart(input)), user_query, fs)
  ELSE IF tool = <<"w","r","i","t","e","_","f","i","l","e">>
    THEN write_file(PyStr(PathPart(input)), PyStr(ContentPart(input)), fs)
  ELSE IF tool = <<"r","e","a","d","_","f","i","l","e">> THEN read_file(PyStr(input), fs)
  ELSE IF tool = <<"a","n","a","l","y","z","e","_","c","o","d","e">> THEN analyze_code(PyStr(input), fs)
  ELSE {FsOutcome(run_command(PyStr(input), os_system(input, code)).ret, fs) :
          code \in ExitCodes}

\* C28: the dispatch of a TOOL step comes to what the tool function comes to
\* when create_file and write_file are given the trimmed text before the
\* first newline of the input as path and everything after that newline as
\* content (the empty text when there is no newline), and run_command,
\* read_file and analyze_code the input as it is; the observation holds the
\* input as given.
C28_InputSplitAtFirstNewline ==
  [][AtDispatch =>
       /\ tool_input' = parsed_result.input
       /\ IF /\ parsed_result.tool.s \in {<<"c","r","e","a","t","e","_","f","i","l","e">>, <<"w","r","i","t","e","_","f","i","l","e">>}
             /\ PathPart(parsed_result.input.s) = <<>>
            THEN tool_response'.kind = "no_file_path" /\ fs' = fs
          ELSE \E r \in CalledAsClaimed(parsed_result.tool.s, parsed_result.input.s) :
                 tool_response' = r.ret /\ fs' = r.fs]_vars

\* create_file was given an input of four lines with blanks around the
\* path: the file holds the three lines after the first.
C28_Witness ==
  /\ pc = "observe"
  /\ tool_to_call = PyStr(<<"c","r","e","a","t","e","_","f","i","l","e">>)
  /\ tool_input = PyStr(<<" ","t","o","d","o",".","p","y"," ","NL","t","a","s","k","s"," ","="," ","[","]","NL","NL","p","r","i","n","t","(","t","a","s","k","s",")","NL">>)
  /\ tool_response.kind = "created"
  /\ tool_response.arg = <<"a","i","_","p","r","o","j","e","c","t","s","/","t","o","d","o","_","a","p","p","/","t","o","d","o",".","p","y">>
  /\ fs.files[<<<<"a","i","_","p","r","o","j","e","c","t","s">>, <<"t","o","d","o","_","a","p","p">>, <<"t","o","d","o",".","p","y">>>>] = <<"t","a","s","k","s"," ","="," ","[","]","NL","NL","p","r","i","n","t","(","t","a","s","k","s",")","NL">>

\* ------------------------------------ claims about a location of the user

\* The location the request query names, <<>> when it names none.
NamedLocation(query) ==
  IF query = PyStr(<<"S","a","v","e"," ","i","n"," ","l","o","c","a","t","i","o","n",":"," ","c","u","s","t","o","m","_","a","p","p","s">>) THEN <<"c","u","s","t","o","m","_","a","p","p","s">>
  ELSE IF query = PyStr(<<"s","a","v","e"," ","i","t"," ","i","n"," ","f","o","l","d","e","r",":"," ","a","p","p","s">>) THEN <<"a","p","p","s">>
  ELSE <<>>

\* C29: when the request names a location and the path given to create_file
\* has no separator, the file that is created lies under that location,
\* whatever the file name and the content, also for a file whose project type
\* cannot be told.
C29_WrittenUnderNamedLocation ==
  [][(/\ CreateFile
      /\ IsStr(tool_arg) /\ tool_arg.s # <<>> /\ ~HasSeparator(tool_arg.s)
      /\ IsStr(tool_content)
      /\ NamedLocation(user_query) # <<>>
      /\ tool_out'.kind = "created") =>
       \E p \in DOMAIN fs'.files :
         /\ Len(p) >= 2
         /\ p[1] = NamedLocation(user_query)
         /\ p[Len(p)] = tool_arg.s
         /\ fs'.files[p] = tool_content.s
         /\ <<NamedLocation(user_query)>> \in fs'.dirs]_vars

\* ------------------------------------------ claims about analyze_code

\* read_file finds the file of the call although the literal path does not
\* exist.
FoundBySearchOnly ==
  /\ IsStr(tool_arg)
  /\ ~Exists(fs, PathOf(tool_arg.s))
  /\ \E r \in read_file(tool_arg, fs) : r.ret.kind = "contents"

\* C30: analyze_code opens the literal path and searches nowhere: a path
\* that is a file is analysed under its own name, any other path gives an
\* error text that holds nothing of a file, also when read_file finds the
\* file in a project container, and the file system is as it was.
C30_AnalyzeCodeLiteralPathOnly ==
  [][(AnalyzeCode /\ IsStr(tool_arg)) =>
       /\ fs' = fs
       /\ IF IsFile(fs, PathOf(tool_arg.s))
            THEN tool_out'.kind = "analysis" /\ tool_out'.arg = tool_arg.s
          ELSE /\ tool_out'.kind = "error_analyzing"
               /\ tool_out'.info = <<>>
               /\ tool_out'.samples = <<>>
       /\ FoundBySearchOnly => tool_out'.kind = "error_analyzing"]_vars

\* analyze_code('todo.py') came to an error text in a working directory
\* where read_file('todo.py') reads the file of a project container.
C30_Witness ==
  /\ tool_pc = "returned"
  /\ tool_name = "analyze_code"
  /\ tool_arg = PyStr(<<"t","o","d","o",".","p","y">>)
  /\ FoundBySearchOnly
  /\ tool_out.kind = "error_analyzing"

\* ------------------------------------------- claims about unknown steps

\* The last response is a JSON object whose step is none of START, PLAN, TOOL
\* and OUTPUT, or that has no step.
UnknownStep ==
  /\ raw_result.form = "object"
  /\ raw_result.step \notin {PyStr(<<"S","T","A","R","T">>), PyStr(<<"P","L","A","N">>), PyStr(<<"T","O","O","L">>), PyStr(<<"O","U","T","P","U","T">>)}

\* C31: a decoded step that is none of START, PLAN, TOOL and OUTPUT, or that
\* has no step field, causes nothing: the model call that receives it appends
\* its assistant message, decoding it and looking at its step invoke no tool,
\* append no observation, touch neither files nor shell and do not return,
\* and the loop is then at its next model call.
C31_UnknownStepFallsThrough ==
  /\ [][(pc' = "parse" /\ UnknownStep') =>
          /\ pc = "call"
          /\ message_history' = Append(message_history, AssistantMessage(raw_result'))
          /\ UNCHANGED <<fs, shell, tool_calls, returned>>]_vars
  /\ [][(pc = "parse" /\ UnknownStep) =>
          /\ pc' = "route"
          /\ UNCHANGED <<message_history, fs, shell, tool_calls, model_calls, returned, raw_result>>]_vars
  /\ [][(pc = "route" /\ UnknownStep) =>
          /\ pc' = "call"
          /\ UNCHANGED <<message_history, fs, shell, tool_calls, model_calls, returned,
                         tool_to_call, tool_input, tool_response>>]_vars
  /\ []((pc \in {"parse", "route"} /\ UnknownStep) =>
          /\ returned = NoReturn
          /\ message_history[Len(message_history)] = AssistantMessage(raw_result))

\* A response without a step field was passed over and the loop is at its
\* second model call with that message as the last one.
C31_Witness ==
  /\ pc = "call"
  /\ model_calls = 1
  /\ raw_result.form = "object"
  /\ raw_result.step = Absent
  /\ Len(message_history) = SeededLength + 1
  /\ message_history[Len(message_history)] = AssistantMessage(raw_result)
  /\ tool_calls = 0
  /\ returned = NoReturn

\* ------------------------------------- claims about the caller's history

\* C32: run_assistant leaves the list of its caller as it is: no step of a
\* run changes the message_history argument, and the history returned is
\* another, longer list that begins with the messages of the caller.
C32_CallerHistoryUntouched ==
  /\ [][history_arg' = history_arg]_vars
  /\ []((pc \notin {"entry", "idle"} /\ history_arg.given) =>
          /\ IsPrefixOf(history_arg.list, message_history)
          /\ Len(message_history) > Len(history_arg.list))
  /\ []((pc = "done" /\ history_arg.given) =>
          /\ IsPrefixOf(history_arg.list, returned.history)
          /\ Len(returned.history) > Len(history_arg.list))

\* A run on a history of three messages of the caller returned seven
\* messages and the list of the caller still has its three.
C32_Witness ==
  /\ pc = "done"
  /\ history_arg.given
  /\ Len(history_arg.list) = 3
  /\ Len(returned.history) = 7
  /\ SubSeq(returned.history, 1, 3) = history_arg.list
  /\ returned.history[4] = [role |-> "user", content |-> [query |-> user_query]]
  /\ tool_calls = 1

\* ---------------------------------------- claims about the program run

\* The programs the entries of the allowlist name.
ProgramNames ==
  {<<"g","i","t">>, <<"n","p","m">>, <<"p","i","p">>, <<"y","a","r","n">>, <<"n","o","d","e">>, <<"p","y","t","h","o","n">>, <<"j","a","v","a">>, <<"l","s">>, <<"d","i","r">>, <<"p","w","d">>, <<"c","d">>, <<"c","a","t">>,
   <<"t","y","p","e">>, <<"h","e","a","d">>, <<"t","a","i","l">>, <<"w","c">>, <<"f","i","n","d">>, <<"g","r","e","p">>, <<"c","o","d","e">>, <<"j","u","p","y","t","e","r">>, <<"w","h","o","a","m","i">>, <<"d","a","t","e">>,
   <<"e","c","h","o">>, <<"w","h","i","c","h">>, <<"w","h","e","r","e">>}

\* The first word of a command: what comes before its first blank, the
\* blanks at its ends left aside, in lower case.
ProgramOf(cmd) ==
  LET text == Lower(Trimmed(cmd))
      ends == {i \in 1..Len(text) : text[i] \in Blanks}
  IN  IF ends = {} THEN text
      ELSE SubSeq(text, 1, (CHOOSE i \in ends : \A j \in ends : i <= j) - 1)

\* C33: run_command hands to the shell only commands whose first word is one
\* of the programs the allowlist names; a command whose first word only
\* begins with such a name is not executed.
C33_OnlyAllowlistedPrograms ==
  (Returned /\ tool_out.kind = "executed") => ProgramOf(tool_arg.s) \in ProgramNames

\* ---------------------------------------- claims about the loop of main.py

\* C34: in the loop of main.py a model call that fails, or a response that
\* cannot be decoded, ends the work on the query: the loop is then at the
\* input of the next query and issues no other model call for this one.
C34_MainStopsOnFailure ==
  /\ [][(/\ pc = "main_call"
         /\ model_calls' = model_calls + 1
         /\ message_history' = message_history) => pc' = "main_input"]_vars
  /\ [][(pc = "main_parse" /\ json_loads(raw_result).exc # "") => pc' = "main_input"]_vars
\* ------------------------------------------------- the JSON-RPC endpoint

\* Request i is an initialize that was answered with a result.
InitializeSucceeded(i) ==
  /\ i \in DOMAIN rpc
  /\ rpc[i].call.method = "initialize"
  /\ rpc[i].reply.kind = "result"

NoInitializeSucceeded == \A i \in DOMAIN rpc : ~InitializeSucceeded(i)

\* The handler of request i runs in this step.
Handled(i) == i \in DOMAIN rpc /\ rpc[i].stage = "received" /\ rpc'[i].stage # "received"

\* No tool function and no run_assistant is called in this step.
NothingCalled ==
  /\ tool_calls' = tool_calls
  /\ pc' = "idle"
  /\ UNCHANGED <<tool_name, tool_arg, tool_content, tool_out, fs, shell, core_key, user_query>>

\* C35: as long as no initialize request has been answered with a result,
\* the handler of every request of another method returns the error -32603
\* "Server not initialized" and calls neither a tool function nor
\* run_assistant; so far no tool function has been called and no run started.
C35_RefusedUntilInitialized ==
  /\ [](NoInitializeSucceeded => (tool_calls = 0 /\ core_key = Absent /\ pc = "idle"))
  /\ [][NoInitializeSucceeded =>
          \A i \in DOMAIN rpc :
            (Handled(i) /\ rpc[i].call.method # "initialize") =>
              (/\ rpc'[i] = RpcEntry(rpc[i].call, "answered", NotInitialized)
               /\ NothingCalled)]_vars

\* Requests with a key of the right shape, for a tool of the registry and
\* for the assistant, were refused before any initialize.
C35_Witness ==
  /\ NoInitializeSucceeded
  /\ Len(rpc) = 2
  /\ rpc[1].call.method = "tools/call"
  /\ rpc[1].call.name.s \in available_tools
  /\ rpc[1].call.arguments.api_key = PyStr(Key(37))
  /\ rpc[1].reply = NotInitialized
  /\ rpc[2].call.method = "assistant/ask"
  /\ rpc[2].call.api_key = PyStr(Key(37))
  /\ rpc[2].reply = NotInitialized

AlreadyInitialized == Reply("error", -32603, "Server already initialized", Absent)

\* C36: in every order in which the handlers of the requests run, at most
\* one initialize is answered with a result, every initialize handled after
\* that one is answered with the error -32603 "Server already initialized",
\* and server_initialized never goes back from true to false.
C36_InitializeSucceedsOnce ==
  /\ [](Cardinality({i \in DOMAIN rpc : InitializeSucceeded(i)}) <= 1)
  /\ [][/\ server_initialized => server_initialized'
        /\ \A i \in DOMAIN rpc :
             (Handled(i) /\ rpc[i].call.method = "initialize" /\ ~NoInitializeSucceeded) =>
               rpc'[i].reply = AlreadyInitialized]_vars

\* Two initialize requests with valid params were received before either
\* was handled; the second received was answered with the result.
C36_Witness ==
  /\ Len(rpc) = 2
  /\ InitializeSucceeded(2)
  /\ rpc[1].call.method = "initialize"
  /\ InitializeParams(rpc[1].call)
  /\ rpc[1].reply = AlreadyInitialized
  /\ server_initialized

InvalidParams == Reply("error", -32602, "Invalid params", Absent)

\* Request j is an initialize that was answered with "Invalid params".
InitializeInvalid(j) ==
  /\ j \in DOMAIN rpc
  /\ rpc[j].call.method = "initialize"
  /\ rpc[j].reply = InvalidParams

\* C37: on a server that is not initialized, an initialize whose params are
\* invalid is answered with the error -32602 and changes neither
\* server_initialized nor client_capabilities; an initialize with valid
\* params handled after it is answered with a result and takes effect.
C37_InvalidInitializeChangesNothing ==
  [][\A i \in DOMAIN rpc :
       (Handled(i) /\ rpc[i].call.method = "initialize" /\ ~server_initialized) =>
         IF InitializeParams(rpc[i].call)
         THEN (\E j \in DOMAIN rpc : InitializeInvalid(j)) =>
                (/\ rpc'[i].reply.kind = "result"
                 /\ server_initialized'
                 /\ client_capabilities' = rpc[i].call.capabilities)
         ELSE /\ rpc'[i].reply = InvalidParams
              /\ ~server_initialized'
              /\ client_capabilities' = client_capabilities]_vars

\* An initialize without capabilities was refused and the one after it
\* succeeded.
C37_Witness ==
  /\ InitializeInvalid(1)
  /\ InitializeSucceeded(2)
  /\ client_capabilities = rpc[2].call.capabilities

\* The api_key of the arguments of request i is a str of the right shape.
ShapedKey(i) ==
  /\ IsStr(rpc[i].call.arguments.api_key)
  /\ KeyShape(rpc[i].call.arguments.api_key.s)

\* The api_key of the arguments of request i is missing, or a str that is
\* not of the right shape.
MissingOrMalformedKey(i) ==
  /\ rpc[i].call.arguments.given
  /\ \/ rpc[i].call.arguments.api_key = Absent
     \/ IsStr(rpc[i].call.arguments.api_key) /\ ~KeyShape(rpc[i].call.arguments.api_key.s)

\* C38: a tool function is called only by the handler of a tools/call
\* request on an initialized server whose arguments hold an api_key that
\* starts with "sk-" and has 40 characters or more and whose tool is in the
\* registry, and the api_key is none of the arguments of the call; on an
\* initialized server a missing or malformed key is answered with -32602
\* whatever the tool name is, and a name that is not in the registry with
\* -32601 when the key is of the right shape.
C38_ToolsCallNeedsKeyAndName ==
  [][/\ tool_calls' # tool_calls =>
          \E i \in DOMAIN rpc :
            /\ Handled(i)
            /\ rpc[i].call.method = "tools/call"
            /\ server_initialized
            /\ ShapedKey(i)
            /\ rpc[i].call.name.s \in available_tools
            /\ tool_name' = rpc[i].call.name.s
            /\ tool_arg' # rpc[i].call.arguments.api_key
            /\ tool_content' # rpc[i].call.arguments.api_key
     /\ \A i \in DOMAIN rpc :
          (Handled(i) /\ rpc[i].call.method = "tools/call" /\ server_initialized) =>
            /\ MissingOrMalformedKey(i) =>
                 (rpc'[i].reply.kind = "error" /\ rpc'[i].reply.code = -32602)
            /\ (ShapedKey(i) /\ rpc[i].call.name.s \notin available_tools) =>
                 (rpc'[i].reply.kind = "error" /\ rpc'[i].reply.code = -32601)]_vars

\* After initialize, a tools/call for read_file with a key of the right
\* shape and no other argument has called the tool, and not with the key.
C38_Witness ==
  /\ Len(rpc) = 2
  /\ InitializeSucceeded(1)
  /\ rpc[2].call = ToolsCall(<<"r","e","a","d","_","f","i","l","e">>, Arguments(PyStr(Key(37)), Absent, Absent, Absent))
  /\ rpc[2].stage = "answered"
  /\ tool_calls = 1
  /\ tool_name = <<"r","e","a","d","_","f","i","l","e">>
  /\ tool_arg = PyStr(<<>>)

\* The texts with which a tool function reports what it has done.
SuccessKinds == {"created", "updated", "contents", "analysis", "executed"}

\* Request i is a tools/call that was answered with a result.
ToolAnswered(i) ==
  /\ i \in DOMAIN rpc
  /\ rpc[i].call.method = "tools/call"
  /\ rpc[i].reply.kind = "result"

\* C39: the result of a tools/call has isError false exactly when the tool
\* function returned the text of a success; an error text, a blocked command
\* and an exception are results with isError true.
C39_IsErrorTellsFailure ==
  \A i \in DOMAIN rpc :
    ToolAnswered(i) =>
      (rpc[i].reply.response.isError <=> rpc[i].reply.response.text.kind \notin SuccessKinds)

\* ------------------------------------------------------- hybrid_server.py

\* C40: when main is over after a keyboard interrupt that came once the
\* first server process was started, the except clause has run to its end,
\* no exception has left main, and every server process that was started
\* has been sent the signal or has ended by itself, and has been joined.
C40_InterruptStopsBoth ==
  (pc \in {"stopped", "failed"} /\ children["simple_api_process"].state # "unstarted") =>
    /\ pc = "stopped"
    /\ escaped = ""
    /\ \A name \in ChildNames :
         children[name].state # "unstarted" =>
           (children[name].state = "exited" /\ children[name].joined)

====
